---- MODULE Spec2Model ----
(***************************************************************************)
(* Model of the codify image-to-code tool: the heuristic canvas analyzer   *)
(* (src/utils/imageAnalysis.ts), the Vision response handling              *)
(* (src/utils/visionAnalysis.ts) and the upload handler of the page        *)
(* component (src/app/page.tsx).                                           *)
(*                                                                         *)
(* Arithmetic.  The source computes with IEEE doubles; the model computes  *)
(* the same comparisons exactly over the integers by clearing              *)
(* denominators (for instance  a / b > 0.6  is  10 * a > 6 * b).           *)
(* A confidence is kept in tenths (0.8 is 8), a luminance in units of      *)
(* 1/255000 and a median in halves.                                        *)
(***************************************************************************)
EXTENDS Integers, Sequences, FiniteSets, TLC

(***************************************************************************)
(* Generic helpers                                                         *)
(***************************************************************************)
SetMax(S) == CHOOSE m \in S : \A n \in S : n <= m

SetMin(S) == CHOOSE m \in S : \A n \in S : m <= n

Abs(n) == IF n < 0 THEN -n ELSE n

\* Math.round of the non-negative rational num / den (den > 0): half up.
RoundDiv(num, den) == (2 * num + den) \div (2 * den)

RECURSIVE SeqSum(_)
SeqSum(s) == IF s = <<>> THEN 0 ELSE Head(s) + SeqSum(Tail(s))

(***************************************************************************)
(* Colours.  A pixel is [r, g, b, a]; a colour string "#rrggbb" is the     *)
(* sequence of its six hexadecimal digits.                                 *)
(***************************************************************************)
Px(r, g, b, a) == [r |-> r, g |-> g, b |-> b, a |-> a]

TransparentBlack == Px(0, 0, 0, 0)

\* `#${((1 << 24) + (r << 16) + (g << 8) + b).toString(16).slice(1)}`
toHex(r, g, b) ==
    << r \div 16, r % 16, g \div 16, g % 16, b \div 16, b % 16 >>

hexToRgb(hex) ==
    [r |-> 16 * hex[1] + hex[2],
     g |-> 16 * hex[3] + hex[4],
     b |-> 16 * hex[5] + hex[6]]

HexWhite == toHex(255, 255, 255)

HexBlack == toHex(0, 0, 0)

\* "#007bff"
HexDefaultBlue == toHex(0, 123, 255)

\* 255000 * (0.299 r/255 + 0.587 g/255 + 0.114 b/255)
LuminanceOf(c) == 299 * c.r + 587 * c.g + 114 * c.b

getLuminance(hex) == LuminanceOf(hexToRgb(hex))

\* 0.05 in luminance units
LumOffset == 12750

\* 0.5 in luminance units
LumHalf == 127500

\* (brightest + 0.05) / (darkest + 0.05) > num / den
LumRatioExceeds(lum1, lum2, num, den) ==
    IF lum1 >= lum2
    THEN den * (lum1 + LumOffset) > num * (lum2 + LumOffset)
    ELSE den * (lum2 + LumOffset) > num * (lum1 + LumOffset)

\* getContrast(color1, color2) > num / den
ContrastExceeds(color1, color2, num, den) ==
    LumRatioExceeds(getLuminance(color1), getLuminance(color2), num, den)

\* the quotient with the first colour always above the second
getContrastOrdered(color1, color2) ==
    [num |-> getLuminance(color1) + LumOffset, den |-> getLuminance(color2) + LumOffset]

\* getContrast(color1, color2): the quotient (brightest + 0.05) / (darkest + 0.05)
\* as its two operands; equal operands give the same double
getContrast(color1, color2) ==
    [num |-> SetMax({getLuminance(color1), getLuminance(color2)}) + LumOffset,
     den |-> SetMin({getLuminance(color1), getLuminance(color2)}) + LumOffset]

\* the square of colorDistance(rgb1, rgb2)
colorDistanceSq(rgb1, rgb2) ==
    (rgb1.r - rgb2.r) * (rgb1.r - rgb2.r)
    + (rgb1.g - rgb2.g) * (rgb1.g - rgb2.g)
    + (rgb1.b - rgb2.b) * (rgb1.b - rgb2.b)

(***************************************************************************)
(* Decoded images and the canvas.  An image is a background pixel and a    *)
(* sequence of axis-parallel rectangles painted over it in order.  A       *)
(* canvas is its size and the images drawn at (0, 0) since the last reset. *)
(***************************************************************************)
ImgRect(x, y, w, h, px) == [x |-> x, y |-> y, w |-> w, h |-> h, px |-> px]

MkImage(w, h, bg, rects) == [width |-> w, height |-> h, bg |-> bg, rects |-> rects]

\* the pixel of the last of the rectangles numbered in hits, else the background
TopRect(img, hits) == IF hits = {} THEN img.bg ELSE img.rects[SetMax(hits)].px

ImgPixel(img, x, y) ==
    TopRect(img, {k \in 1..Len(img.rects) :
                    /\ img.rects[k].x <= x /\ x < img.rects[k].x + img.rects[k].w
                    /\ img.rects[k].y <= y /\ y < img.rects[k].y + img.rects[k].h})

EmptyCanvas == [width |-> 300, height |-> 150, layers |-> <<>>]

\* a resize that keeps what was drawn
SetCanvasSizeKeeping(cv, w, h) == [width |-> w, height |-> h, layers |-> cv.layers]

\* canvas.width = w; canvas.height = h : every assignment clears the bitmap
SetCanvasSize(cv, w, h) == [width |-> w, height |-> h, layers |-> <<>>]

\* every pixel of the image has alpha 255
IsOpaque(img) ==
    img.bg.a = 255 /\ \A k \in DOMAIN img.rects : img.rects[k].px.a = 255

\* ctx.drawImage(img, 0, 0) : source-over compositing; an opaque image that
\* covers the bitmap leaves nothing of what was drawn before
drawImage(cv, img) ==
    IF IsOpaque(img) /\ img.width >= cv.width /\ img.height >= cv.height
    THEN [cv EXCEPT !.layers = <<img>>]
    ELSE [cv EXCEPT !.layers = Append(@, img)]

\* one pixel as getImageData returns it; outside the bitmap and where
\* nothing opaque was drawn it is transparent black
TopLayer(cv, x, y, hits) ==
    IF hits = {} THEN TransparentBlack ELSE ImgPixel(cv.layers[SetMax(hits)], x, y)

CanvasPixel(cv, x, y) ==
    IF x < 0 \/ y < 0 \/ x >= cv.width \/ y >= cv.height
    THEN TransparentBlack
    ELSE TopLayer(cv, x, y,
                  {k \in 1..Len(cv.layers) :
                      /\ x < cv.layers[k].width /\ y < cv.layers[k].height
                      /\ ImgPixel(cv.layers[k], x, y).a > 0})

\* ctx.getImageData(sx, sy, w, h) : the copied area of the bitmap, kept as
\* its origin and size over the canvas contents at the time of the call
getImageData(cv, sx, sy, w, h) ==
    [width |-> w, height |-> h, sx |-> sx, sy |-> sy, of |-> cv]

\* the pixel at index 4 * p of imageData.data (row-major)
DataPixel(imageData, p) ==
    CanvasPixel(imageData.of,
                imageData.sx + (p % imageData.width),
                imageData.sy + (p \div imageData.width))

\* the colour string of a pixel
PixelHex(p) == toHex(p.r, p.g, p.b)

getPixelColor(cv, x, y) == PixelHex(CanvasPixel(cv, x, y))

(***************************************************************************)
(* Frequency maps.  A JavaScript Map keeps insertion order and             *)
(* Array.prototype.sort is stable, so entries sorted by descending count   *)
(* keep the order of first occurrence among equal counts.                  *)
(***************************************************************************)
RECURSIVE PickByFrequency(_, _, _)
PickByFrequency(S, cnt, fst) ==
    IF S = {} THEN <<>>
    ELSE LET best == CHOOSE c \in S : \A d \in S \ {c} :
                        \/ cnt[c] > cnt[d]
                        \/ (cnt[c] = cnt[d] /\ fst[c] < fst[d])
         IN  <<best>> \o PickByFrequency(S \ {best}, cnt, fst)

\* the keys of the map in insertion order, the sort left out
KeysAsInserted(idx, h) ==
    LET keys == {h[k] : k \in idx}
    IN  PickByFrequency(keys, [c \in keys |-> 0],
                        [c \in keys |-> SetMin({k \in idx : h[k] = c})])

\* the keys of the map built from the colours h[k], k in idx (ascending),
\* sorted by ([, a], [, b]) => b - a
SortByCount(idx, h) ==
    LET keys == {h[k] : k \in idx}
        cnt == [c \in keys |-> Cardinality({k \in idx : h[k] = c})]
        fst == [c \in keys |-> SetMin({k \in idx : h[k] = c})]
    IN  PickByFrequency(keys, cnt, fst)

FirstN(s, n) == IF Len(s) <= n THEN s ELSE SubSeq(s, 1, n)

(***************************************************************************)
(* ColorAnalyzer                                                           *)
(***************************************************************************)
\* the colours of the four corner pixels
CornerColors(cv) ==
    << getPixelColor(cv, 0, 0),
       getPixelColor(cv, cv.width - 1, 0),
       getPixelColor(cv, 0, cv.height - 1),
       getPixelColor(cv, cv.width - 1, cv.height - 1) >>

\* sortedCorners[0]?.[0] || colors[0] || "#ffffff"
FirstColorOr(sortedCorners, colors) ==
    IF sortedCorners # <<>> THEN sortedCorners[1]
    ELSE IF colors # <<>> THEN colors[1] ELSE HexWhite

detectBackgroundColor(cv, colors) ==
    FirstColorOr(SortByCount(1..4, CornerColors(cv)), colors)

detectTextColor(backgroundColor) ==
    IF getLuminance(backgroundColor) > LumHalf THEN HexBlack ELSE HexWhite

\* the search cut to the first five colours
detectAccentColorOfFive(colors, backgroundColor) ==
    LET ok == {k \in 1..Len(colors) :
                  /\ k <= 5
                  /\ colors[k] # backgroundColor
                  /\ ContrastExceeds(colors[k], backgroundColor, 3, 1)}
    IN  IF ok = {} THEN HexDefaultBlue ELSE colors[SetMin(ok)]

detectAccentColor(colors, backgroundColor) ==
    LET ok == {k \in 1..Len(colors) :
                  /\ colors[k] # backgroundColor
                  /\ ContrastExceeds(colors[k], backgroundColor, 3, 1)}
    IN  IF ok = {} THEN HexDefaultBlue ELSE colors[SetMin(ok)]

\* the samples (every 100th pixel) that are counted: alpha not below 128
CountedSamples(data, last) == {k \in 0..last : DataPixel(data, 100 * k).a >= 128}

\* the colour map of the counted samples, most frequent first
SortedSampleColors(data, counted) ==
    SortByCount(counted, [k \in counted |-> PixelHex(DataPixel(data, 100 * k))])

\* the ColorPalette returned, from the ten most frequent colours
ColorPalette(sortedColors, background) ==
    [dominant |-> IF sortedColors = <<>> THEN HexWhite ELSE sortedColors[1],
     palette |-> FirstN(sortedColors, 5),
     background |-> background,
     text |-> detectTextColor(background),
     accent |-> detectAccentColor(sortedColors, background)]

ColorsOfSorted(cv, sortedColors) ==
    ColorPalette(sortedColors, detectBackgroundColor(cv, sortedColors))

ColorsOfData(cv, data, last) ==
    ColorsOfSorted(cv, FirstN(SortedSampleColors(data, CountedSamples(data, last)), 10))

extractColors(cv) ==
    ColorsOfData(cv, getImageData(cv, 0, 0, cv.width, cv.height),
                 (cv.width * cv.height - 1) \div 100)

(***************************************************************************)
(* EdgeDetector: 3x3 Sobel over the channel mean, threshold 50.  With      *)
(* intensities kept as r + g + b (three times the mean) the test           *)
(* sqrt(gx^2 + gy^2) > 50 is gx3^2 + gy3^2 > 150^2.                        *)
(***************************************************************************)
PixelSum(p) == p.r + p.g + p.b

\* r + g + b of the pixel at (x, y) of imageData
Intensity3(imageData, x, y) == PixelSum(DataPixel(imageData, y * imageData.width + x))

\* the edge pixel for the gradients gx, gy (in thirds)
SobelPixel(gx, gy) ==
    IF gx * gx + gy * gy > 22500 THEN Px(255, 255, 255, 255) ELSE Px(0, 0, 0, 255)

EdgeAt(imageData, x, y) ==
    IF x < 1 \/ y < 1 \/ x >= imageData.width - 1 \/ y >= imageData.height - 1
    THEN TransparentBlack
    ELSE SobelPixel(
             - Intensity3(imageData, x - 1, y - 1) + Intensity3(imageData, x + 1, y - 1)
             - 2 * Intensity3(imageData, x - 1, y) + 2 * Intensity3(imageData, x + 1, y)
             - Intensity3(imageData, x - 1, y + 1) + Intensity3(imageData, x + 1, y + 1),
             - Intensity3(imageData, x - 1, y - 1) - 2 * Intensity3(imageData, x, y - 1)
             - Intensity3(imageData, x + 1, y - 1) + Intensity3(imageData, x - 1, y + 1)
             + 2 * Intensity3(imageData, x, y + 1) + Intensity3(imageData, x + 1, y + 1))

\* the edge map, kept as its size and the data it is computed from: the
\* pixel at index 4 * p of edges.data is EdgeData(edges, p)
detectEdges(imageData) ==
    [width |-> imageData.width, height |-> imageData.height, of |-> imageData]

EdgeData(edges, p) == EdgeAt(edges.of, p % edges.width, p \div edges.width)

(***************************************************************************)
(* RegionDetector                                                          *)
(***************************************************************************)
\* the values i = 0, step, 2 * step, ... with i < n
Steps(n, step) == IF n <= 0 THEN {} ELSE {step * k : k \in 0..((n - 1) \div step)}

\* the coordinates of the border samples around the region, every 5th
\* pixel along each side that lies inside the image
BorderPixels(imageData, x, y, width, height) ==
    {<<x + i, y - 1>> :
        i \in {j \in Steps(width, 5) : y > 0 /\ x + j < imageData.width}}
    \cup {<<x + i, y + height>> :
        i \in {j \in Steps(width, 5) :
                  y + height < imageData.height /\ x + j < imageData.width}}
    \cup {<<x - 1, y + i>> :
        i \in {j \in Steps(height, 5) : x > 0 /\ y + j < imageData.height}}
    \cup {<<x + width, y + i>> :
        i \in {j \in Steps(height, 5) :
                  x + width < imageData.width /\ y + j < imageData.height}}

\* the number of border samples with getContrast(elementColor, sample) > 1.5
ContrastCount(imageData, border, elementColor) ==
    Cardinality({q \in border :
        ContrastExceeds(elementColor,
                        PixelHex(DataPixel(imageData, q[2] * imageData.width + q[1])),
                        3, 2)})

\* the comparison turned around
AtMostThirtyPercent(contrastCount, borderLength) == 10 * contrastCount < 3 * borderLength

\* contrastCount > borderPixels.length * 0.3
OverThirtyPercent(contrastCount, borderLength) == 10 * contrastCount > 3 * borderLength

BorderContrast(imageData, border, elementColor) ==
    OverThirtyPercent(ContrastCount(imageData, border, elementColor), Cardinality(border))

hasContrastWithSurroundings(imageData, x, y, width, height, elementColor) ==
    BorderContrast(imageData, BorderPixels(imageData, x, y, width, height), elementColor)

\* what one sample adds to pixelCount and the channel totals
SampleTotals(p) ==
    IF p.a > 128 THEN <<1, p.r, p.g, p.b>> ELSE <<0, 0, 0, 0>>

AddTotals(s, t) == <<s[1] + t[1], s[2] + t[2], s[3] + t[3], s[4] + t[4]>>

\* the k-th sample (k = 1 .. nx * ny) of the region in scan order
RegionSample(imageData, x, y, nx, k) ==
    DataPixel(imageData,
              (y + 2 * ((k - 1) \div nx)) * imageData.width + (x + 2 * ((k - 1) % nx)))

\* pixelCount, totalR, totalG, totalB over samples lo .. hi
RECURSIVE RegionTotals(_, _, _, _, _, _)
RegionTotals(imageData, x, y, nx, lo, hi) ==
    IF lo > hi THEN <<0, 0, 0, 0>>
    ELSE IF lo = hi THEN SampleTotals(RegionSample(imageData, x, y, nx, lo))
    ELSE AddTotals(RegionTotals(imageData, x, y, nx, lo, (lo + hi) \div 2),
                   RegionTotals(imageData, x, y, nx, (lo + hi) \div 2 + 1, hi))

SampleDeviation(p, avgR, avgG, avgB) ==
    IF p.a > 128
    THEN (p.r - avgR) * (p.r - avgR) + (p.g - avgG) * (p.g - avgG)
         + (p.b - avgB) * (p.b - avgB)
    ELSE 0

\* the sum of squared deviations over samples lo .. hi
RECURSIVE RegionDeviation(_, _, _, _, _, _, _, _, _)
RegionDeviation(imageData, x, y, nx, avgR, avgG, avgB, lo, hi) ==
    IF lo > hi THEN 0
    ELSE IF lo = hi
       THEN SampleDeviation(RegionSample(imageData, x, y, nx, lo), avgR, avgG, avgB)
    ELSE RegionDeviation(imageData, x, y, nx, avgR, avgG, avgB, lo, (lo + hi) \div 2)
         + RegionDeviation(imageData, x, y, nx, avgR, avgG, avgB, (lo + hi) \div 2 + 1, hi)

\* the rest of analyzeRegion once the rounded channel averages are known;
\* variance < 2000, variance being the sum of deviations over pixelCount
VerdictForAverage(imageData, x, y, width, height, nx, n, pixelCount, avgR, avgG, avgB) ==
    [isUIElement |->
        /\ RegionDeviation(imageData, x, y, nx, avgR, avgG, avgB, 1, n) < 2000 * pixelCount
        /\ hasContrastWithSurroundings(imageData, x, y, width, height,
                                       toHex(avgR, avgG, avgB)),
     avgColor |-> toHex(avgR, avgG, avgB)]

\* the rest of analyzeRegion once the totals are known
RegionVerdict(imageData, x, y, width, height, nx, n, totals) ==
    IF totals[1] = 0
    THEN [isUIElement |-> FALSE, avgColor |-> HexWhite]
    ELSE VerdictForAverage(imageData, x, y, width, height, nx, n, totals[1],
                           RoundDiv(totals[2], totals[1]),
                           RoundDiv(totals[3], totals[1]),
                           RoundDiv(totals[4], totals[1]))

\* the numbers of sample columns and rows of the region inside the image
SampleColumns(imageData, x, width) ==
    Cardinality({dx \in Steps(width, 2) : x + dx < imageData.width})

SampleRows(imageData, y, height) ==
    Cardinality({dy \in Steps(height, 2) : y + dy < imageData.height})

AnalyzeSamples(imageData, x, y, width, height, nx, n) ==
    RegionVerdict(imageData, x, y, width, height, nx, n,
                  RegionTotals(imageData, x, y, nx, 1, n))

analyzeRegion(imageData, x, y, width, height) ==
    AnalyzeSamples(imageData, x, y, width, height,
                   SampleColumns(imageData, x, width),
                   SampleColumns(imageData, x, width) * SampleRows(imageData, y, height))

\* the last coordinate start + dir * 2 * k (k = 0 .. kmax) reached before the
\* first pixel farther than the tolerance from the target, start if none;
\* fail holds the k whose pixel is farther than the tolerance
ExpandExtent(start, dir, kmax, fail) ==
    LET lastK == IF fail = {} THEN kmax ELSE SetMin(fail) - 1
    IN  IF lastK < 0 THEN start ELSE start + dir * 2 * lastK

\* colorDistance(targetRGB, hexToRgb(getPixelColor(x, y))) < tolerance
NearTarget(cv, targetRGB, x, y) ==
    colorDistanceSq(targetRGB, hexToRgb(getPixelColor(cv, x, y))) < 2500

ExpandX(cv, targetRGB, startX, startY, dir, kmax) ==
    ExpandExtent(startX, dir, kmax,
                 {k \in 0..kmax : ~NearTarget(cv, targetRGB, startX + dir * 2 * k, startY)})

ExpandY(cv, targetRGB, startX, startY, dir, kmax) ==
    ExpandExtent(startY, dir, kmax,
                 {k \in 0..kmax : ~NearTarget(cv, targetRGB, startX, startY + dir * 2 * k)})

\* the extent taken as the far corner, the near corner not subtracted
RegionBoundsFarCorner(minX, maxX, minY, maxY) ==
    [x |-> minX, y |-> minY, width |-> maxX, height |-> maxY]

\* the box laid out from the far corner
RegionBoundsFromMax(minX, maxX, minY, maxY) ==
    [x |-> maxX, y |-> maxY, width |-> maxX - minX, height |-> maxY - minY]

\* the bounding box returned by expandRegion
RegionBounds(minX, maxX, minY, maxY) ==
    [x |-> minX, y |-> minY, width |-> maxX - minX, height |-> maxY - minY]

ExpandFrom(cv, width, height, startX, startY, targetRGB) ==
    RegionBounds(ExpandX(cv, targetRGB, startX, startY, -1, startX \div 2),
                 ExpandX(cv, targetRGB, startX, startY, 1, (width - 1 - startX) \div 2),
                 ExpandY(cv, targetRGB, startX, startY, -1, startY \div 2),
                 ExpandY(cv, targetRGB, startX, startY, 1, (height - 1 - startY) \div 2))

expandRegion(cv, imageData, startX, startY, targetColor) ==
    ExpandFrom(cv, imageData.width, imageData.height, startX, startY,
               hexToRgb(targetColor))

\* visited[y * width + x] after the marking loops have run over each of marks
IsVisited(marks, x, y) ==
    \E k \in 1..Len(marks) :
        /\ marks[k].x <= x /\ x < marks[k].x + marks[k].width
        /\ (x - marks[k].x) % 5 = 0
        /\ marks[k].y <= y /\ y < marks[k].y + marks[k].height
        /\ (y - marks[k].y) % 5 = 0

\* rectangles.push(bounds) without the threshold
PushAlways(rectangles, bounds) == Append(rectangles, bounds)

\* rectangles.push(bounds) under the minimum size threshold
PushIfLarge(rectangles, bounds) ==
    IF bounds.width > 30 /\ bounds.height > 20
    THEN Append(rectangles, bounds)
    ELSE rectangles

\* the body of the inner loop for the seed (x, y) once its region is analysed
SeedResult(cv, originalData, x, y, region, rectangles) ==
    IF region.isUIElement
    THEN PushIfLarge(rectangles, expandRegion(cv, originalData, x, y, region.avgColor))
    ELSE rectangles

\* the inner loop of findRectangles: the seeds (20 * col, y) of one row from
\* column col on; rectangles doubles as the list of marked bounds
RECURSIVE ScanRow(_, _, _, _, _, _)
ScanRow(cv, originalData, y, col, nCols, rectangles) ==
    IF col >= nCols THEN rectangles
    ELSE IF IsVisited(rectangles, 20 * col, y)
       THEN ScanRow(cv, originalData, y, col + 1, nCols, rectangles)
    ELSE ScanRow(cv, originalData, y, col + 1, nCols,
                 SeedResult(cv, originalData, 20 * col, y,
                            analyzeRegion(originalData, 20 * col, y, 20, 20),
                            rectangles))

\* the outer loop of findRectangles: the rows from row on
RECURSIVE ScanRows(_, _, _, _, _, _)
ScanRows(cv, originalData, row, nRows, nCols, rectangles) ==
    IF row >= nRows THEN rectangles
    ELSE ScanRows(cv, originalData, row + 1, nRows, nCols,
                  ScanRow(cv, originalData, 20 * row, 0, nCols, rectangles))

\* the scan run over the image the edge map was computed from
findRectanglesOfEdges(cv, edges) ==
    ScanRows(edges.of.of, edges.of, 0,
             Cardinality(Steps(edges.height - 20, 20)),
             Cardinality(Steps(edges.width - 20, 20)), <<>>)

findRectangles(cv, edges) ==
    ScanRows(cv, getImageData(cv, 0, 0, edges.width, edges.height), 0,
             Cardinality(Steps(edges.height - 20, 20)),
             Cardinality(Steps(edges.width - 20, 20)), <<>>)

(***************************************************************************)
(* ElementClassifier.  aspectRatio = width / height is compared by cross   *)
(* multiplication (height > 0); confidence is in tenths.                   *)
(***************************************************************************)
\* the pixels 0, 4, 8, ... of the data that are counted: alpha above 128
\* the samples counted from alpha 128 on
OpaqueSamplesFrom128(imageData, last) ==
    {k \in 0..last : DataPixel(imageData, 4 * k).a >= 128}

OpaqueSamples(imageData, last) ==
    {k \in 0..last : DataPixel(imageData, 4 * k).a > 128}

SortedElementColors(imageData, opaque) ==
    SortByCount(opaque, [k \in opaque |-> PixelHex(DataPixel(imageData, 4 * k))])

\* sortedColors.length > 0 ? sortedColors[0][0] : "#ffffff"
FirstOrWhite(sortedColors) ==
    IF sortedColors # <<>> THEN sortedColors[1] ELSE HexWhite

getDominantColor(imageData) ==
    FirstOrWhite(SortedElementColors(imageData,
        OpaqueSamples(imageData, (imageData.width * imageData.height - 1) \div 4)))

NoElement == [type |-> "null"]

\* the decision chain with the text test before the button test
ClassifyRuleTextFirst(w, h) ==
    LET area == w * h
    IN  IF w > 4 * h /\ h <= 40
           THEN <<"text", 7>>
        ELSE IF 2 * w >= 3 * h /\ w <= 6 * h /\ h >= 20 /\ h <= 80 /\ w >= 60 /\ w <= 300
           THEN <<"button", 8>>
        ELSE IF w >= 2 * h /\ w <= 8 * h /\ h >= 25 /\ h <= 60 /\ w >= 100
           THEN <<"input", 6>>
        ELSE IF area > 5000 /\ 2 * w >= h /\ w <= 3 * h
           THEN <<"card", 7>>
        ELSE IF area > 2000 /\ 10 * w >= 7 * h /\ 2 * w <= 3 * h
           THEN <<"image", 6>>
        ELSE IF area > 1000
           THEN <<"container", 4>>
        ELSE <<"null", 0>>

\* the decision table of classifyElement: <<type, confidence>>
ClassifyRule(w, h) ==
    LET area == w * h
    IN  IF 2 * w >= 3 * h /\ w <= 6 * h /\ h >= 20 /\ h <= 80 /\ w >= 60 /\ w <= 300
           THEN <<"button", 8>>
        ELSE IF w > 4 * h /\ h <= 40
           THEN <<"text", 7>>
        ELSE IF w >= 2 * h /\ w <= 8 * h /\ h >= 25 /\ h <= 60 /\ w >= 100
           THEN <<"input", 6>>
        ELSE IF area > 5000 /\ 2 * w >= h /\ w <= 3 * h
           THEN <<"card", 7>>
        ELSE IF area > 2000 /\ 10 * w >= 7 * h /\ 2 * w <= 3 * h
           THEN <<"image", 6>>
        ELSE IF area > 1000
           THEN <<"container", 4>>
        ELSE <<"null", 0>>

\* the element built for a rule of the decision table
ClassifiedAs(rule, rect, elementColor) ==
    IF rule[1] = "null" THEN NoElement
    ELSE [type |-> rule[1],
          bounds |-> rect,
          colors |-> [background |-> elementColor],
          confidence |-> rule[2]]

classifyElement(cv, rect) ==
    ClassifiedAs(ClassifyRule(rect.width, rect.height), rect,
                 getDominantColor(getImageData(cv, rect.x, rect.y, rect.width, rect.height)))

\* rectangles.map(classifyElement).filter((element) => element !== null)
ClassifyAll(cv, rectangles) ==
    SelectSeq([k \in 1..Len(rectangles) |-> classifyElement(cv, rectangles[k])],
              LAMBDA e : e.type # "null")

detectElements(cv) ==
    ClassifyAll(cv, findRectangles(cv,
        detectEdges(getImageData(cv, 0, 0, cv.width, cv.height))))

(***************************************************************************)
(* LayoutAnalyzer                                                          *)
(***************************************************************************)
\* [...elements].sort((a, b) => key(a) - key(b)) : a stable sort
RECURSIVE SortIdx(_, _)
SortIdx(I, key) ==
    IF I = {} THEN <<>>
    ELSE LET i == CHOOSE a \in I : \A b \in I \ {a} :
                     key[a] < key[b] \/ (key[a] = key[b] /\ a < b)
         IN  <<i>> \o SortIdx(I \ {i}, key)

SortedByX(elements) ==
    LET order == SortIdx(DOMAIN elements, [k \in DOMAIN elements |-> elements[k].bounds.x])
    IN  [k \in 1..Len(elements) |-> elements[order[k]]]

SortedByY(elements) ==
    LET order == SortIdx(DOMAIN elements, [k \in DOMAIN elements |-> elements[k].bounds.y])
    IN  [k \in 1..Len(elements) |-> elements[order[k]]]

\* if (gap > 0) gaps.push(gap), with the filter left out
AllGaps(gap) == gap

\* if (gap > 0) gaps.push(gap)
PositiveGaps(gap) == SelectSeq(gap, LAMBDA g : g > 0)

\* the gaps curr.x - (prev.x + prev.width) between neighbours in sorted
GapsAlongX(sorted) ==
    PositiveGaps([i \in 1..(Len(sorted) - 1) |->
        sorted[i + 1].bounds.x - (sorted[i].bounds.x + sorted[i].bounds.width)])

GapsAlongY(sorted) ==
    PositiveGaps([i \in 1..(Len(sorted) - 1) |->
        sorted[i + 1].bounds.y - (sorted[i].bounds.y + sorted[i].bounds.height)])

HorizontalGaps(elements) == GapsAlongX(SortedByX(elements))

VerticalGaps(elements) == GapsAlongY(SortedByY(elements))

\* twice the median of a non-empty list
median2(numbers) ==
    LET order == SortIdx(DOMAIN numbers, numbers)
        sorted == [k \in 1..Len(numbers) |-> numbers[order[k]]]
        mid == Len(numbers) \div 2
    IN  IF Len(numbers) % 2 = 0
        THEN sorted[mid] + sorted[mid + 1]
        ELSE 2 * sorted[mid + 1]

\* standardDeviation(numbers) < limit, for a non-empty list:
\* with k = length and S = sum,  sum (k n - S)^2 < limit^2 k^3
\* the sample standard deviation, which a single number does not have
StdDevBelowSample(numbers, limit) ==
    LET k == Len(numbers)
        S == SeqSum(numbers)
        sq == [i \in 1..k |-> (k * numbers[i] - S) * (k * numbers[i] - S)]
    IN  k > 1 /\ SeqSum(sq) < limit * limit * k * k * (k - 1)

StdDevBelow(numbers, limit) ==
    LET k == Len(numbers)
        S == SeqSum(numbers)
        sq == [i \in 1..k |-> (k * numbers[i] - S) * (k * numbers[i] - S)]
    IN  SeqSum(sq) < limit * limit * k * k * k

\* with S = sum (2 x + width) and n W the same scale for the canvas centre
determineAlignment(cv, elements) ==
    LET n == Len(elements)
        SX == SeqSum([k \in 1..n |-> 2 * elements[k].bounds.x + elements[k].bounds.width])
        SY == SeqSum([k \in 1..n |-> 2 * elements[k].bounds.y + elements[k].bounds.height])
        nW == n * cv.width
        nH == n * cv.height
    IN  IF 5 * Abs(SX - nW) < nW /\ 5 * Abs(SY - nH) < nH THEN "center"
        ELSE IF 10 * SX < 7 * nW THEN "start"
        ELSE IF 10 * SX > 13 * nW THEN "end"
        ELSE "start"

\* twice (gaps.length > 0 ? median(gaps) : 16)
MedianOrDefault2(gaps) == IF gaps # <<>> THEN median2(gaps) ELSE 32

\* Math.max(8, Math.min(minX, minY, 32))
ContainerPadding(elements) ==
    SetMax({8, SetMin({elements[k].bounds.x : k \in DOMAIN elements}
                      \cup {elements[k].bounds.y : k \in DOMAIN elements}
                      \cup {32})})

\* the metrics record, from the doubled medians h2 and v2
LayoutMetrics(h2, v2, containerPadding, alignment) ==
    [horizontalGap |-> RoundDiv(h2, 2),
     verticalGap |-> RoundDiv(v2, 2),
     averageGap |-> RoundDiv(h2 + v2, 4),
     containerPadding |-> containerPadding,
     alignment |-> alignment]

calculateLayoutMetrics(cv, elements) ==
    LayoutMetrics(MedianOrDefault2(HorizontalGaps(elements)),
                  MedianOrDefault2(VerticalGaps(elements)),
                  ContainerPadding(elements),
                  determineAlignment(cv, elements))

\* the number of groups: sorted elements join the first group whose first
\* member is within the tolerance, else open a new group
RECURSIVE GroupFirsts(_, _, _)
GroupFirsts(keys, k, firsts) ==
    IF k > Len(keys) THEN firsts
    ELSE IF \E j \in 1..Len(firsts) : Abs(keys[k] - firsts[j]) <= 20
         THEN GroupFirsts(keys, k + 1, firsts)
         ELSE GroupFirsts(keys, k + 1, Append(firsts, keys[k]))

groupElementsIntoRows(elements) ==
    LET sorted == SortedByY(elements)
    IN  GroupFirsts([k \in 1..Len(sorted) |-> sorted[k].bounds.y], 1, <<>>)

groupElementsIntoColumns(elements) ==
    LET sorted == SortedByX(elements)
    IN  GroupFirsts([k \in 1..Len(sorted) |-> sorted[k].bounds.x], 1, <<>>)

\* gaps.length > 0 ? standardDeviation(gaps) < 20 : true
ConsistentGaps(gaps) == IF gaps # <<>> THEN StdDevBelow(gaps, 20) ELSE TRUE

hasConsistentSpacing(elements) ==
    ConsistentGaps(HorizontalGaps(elements)) /\ ConsistentGaps(VerticalGaps(elements))

\* the grid test with a minimum of five elements
isGridLayoutFromFive(elements) ==
    IF Len(elements) < 5 THEN FALSE
    ELSE /\ Len(groupElementsIntoRows(elements)) >= 2
         /\ Len(groupElementsIntoColumns(elements)) >= 2
         /\ hasConsistentSpacing(elements)

isGridLayout(elements) ==
    IF Len(elements) < 4 THEN FALSE
    ELSE /\ Len(groupElementsIntoRows(elements)) >= 2
         /\ Len(groupElementsIntoColumns(elements)) >= 2
         /\ hasConsistentSpacing(elements)

\* the number of pairs i < j whose positions differ by at most 10
AlignedPairs(pos) ==
    Cardinality({q \in (DOMAIN pos) \X (DOMAIN pos) :
                    q[1] < q[2] /\ Abs(pos[q[1]] - pos[q[2]]) <= 10})

\* checkHorizontalAlignment(elements) > 0.6
HorizontalAlignmentHigh(elements) ==
    LET n == Len(elements)
    IN  10 * AlignedPairs([k \in 1..n |-> elements[k].bounds.y]) > 3 * n * (n - 1)

\* checkVerticalAlignment(elements) > 0.6
VerticalAlignmentHigh(elements) ==
    LET n == Len(elements)
    IN  10 * AlignedPairs([k \in 1..n |-> elements[k].bounds.x]) > 3 * n * (n - 1)

\* the average gap of exactly 50 counted as space-between
SpacingAlignmentInclusive(gaps) ==
    IF SeqSum(gaps) >= 50 * Len(gaps) THEN "space-between" ELSE "space-around"

\* avgGap > 50 ? "space-between" : "space-around"
SpacingAlignment(gaps) ==
    IF SeqSum(gaps) > 50 * Len(gaps) THEN "space-between" ELSE "space-around"

determineFlexAlignment(cv, sortedElements, direction) ==
    LET n == Len(sortedElements)
        positions == [k \in 1..n |->
                        IF direction = "horizontal"
                        THEN sortedElements[k].bounds.x
                        ELSE sortedElements[k].bounds.y]
        gaps == [i \in 1..(n - 1) |-> positions[i + 1] - positions[i]]
        containerSize == IF direction = "horizontal" THEN cv.width ELSE cv.height
        firstPos == positions[1]
        lastPos == positions[n]
    IN  IF n < 2 THEN "start"
        ELSE IF StdDevBelow(gaps, 10)
           THEN SpacingAlignment(gaps)
        ELSE IF 10 * firstPos < containerSize THEN "start"
        ELSE IF 10 * lastPos > 9 * containerSize THEN "end"
        ELSE IF 10 * firstPos > 3 * containerSize /\ 10 * lastPos < 7 * containerSize
           THEN "center"
        ELSE "start"

\* analyzeLayout past the early return, with the metrics computed
\* the column test made before the row test
LayoutForColumnFirst(cv, elements, layoutMetrics) ==
    IF isGridLayout(elements)
       THEN [type |-> "grid",
             alignment |-> layoutMetrics.alignment,
             gap |-> layoutMetrics.averageGap,
             padding |-> layoutMetrics.containerPadding]
    ELSE IF VerticalAlignmentHigh(elements)
       THEN [type |-> "flex",
             direction |-> "column",
             alignment |-> determineFlexAlignment(cv, SortedByY(elements), "vertical"),
             gap |-> layoutMetrics.verticalGap,
             padding |-> layoutMetrics.containerPadding]
    ELSE IF HorizontalAlignmentHigh(elements)
       THEN [type |-> "flex",
             direction |-> "row",
             alignment |-> determineFlexAlignment(cv, SortedByX(elements), "horizontal"),
             gap |-> layoutMetrics.horizontalGap,
             padding |-> layoutMetrics.containerPadding]
    ELSE [type |-> "absolute", padding |-> layoutMetrics.containerPadding]

LayoutFor(cv, elements, layoutMetrics) ==
    IF isGridLayout(elements)
       THEN [type |-> "grid",
             alignment |-> layoutMetrics.alignment,
             gap |-> layoutMetrics.averageGap,
             padding |-> layoutMetrics.containerPadding]
    ELSE IF HorizontalAlignmentHigh(elements)
       THEN [type |-> "flex",
             direction |-> "row",
             alignment |-> determineFlexAlignment(cv, SortedByX(elements), "horizontal"),
             gap |-> layoutMetrics.horizontalGap,
             padding |-> layoutMetrics.containerPadding]
    ELSE IF VerticalAlignmentHigh(elements)
       THEN [type |-> "flex",
             direction |-> "column",
             alignment |-> determineFlexAlignment(cv, SortedByY(elements), "vertical"),
             gap |-> layoutMetrics.verticalGap,
             padding |-> layoutMetrics.containerPadding]
    ELSE [type |-> "absolute", padding |-> layoutMetrics.containerPadding]

\* the early return taken for an empty list only
analyzeLayoutFromOne(cv, elements) ==
    IF Len(elements) < 1 THEN [type |-> "absolute"]
    ELSE LayoutFor(cv, elements, calculateLayoutMetrics(cv, elements))

analyzeLayout(cv, elements) ==
    IF Len(elements) < 2 THEN [type |-> "absolute"]
    ELSE LayoutFor(cv, elements, calculateLayoutMetrics(cv, elements))

(***************************************************************************)
(* The images the model analyses.                                          *)
(***************************************************************************)
White == Px(255, 255, 255, 255)

Blue == Px(0, 0, 255, 255)

Red == Px(220, 38, 38, 255)

DarkGray == Px(31, 41, 55, 255)

\* Scenario B: a solid blue 80x40 rectangle centred on white 400x300
ScenarioB == MkImage(400, 300, White, <<ImgRect(160, 130, 80, 40, Blue)>>)

\* a blue 80x40 rectangle whose corner lies on the seed grid
ButtonImage == MkImage(120, 80, White, <<ImgRect(20, 20, 80, 40, Blue)>>)

\* two rectangles, one below the other
StackImage ==
    MkImage(140, 160, White,
            <<ImgRect(20, 20, 80, 40, Blue), ImgRect(20, 80, 80, 40, Red)>>)

\* a red rectangle on a fully transparent background
TransparentImage == MkImage(80, 60, TransparentBlack, <<ImgRect(20, 20, 40, 30, Red)>>)

Images == <<ScenarioB, ButtonImage, StackImage, TransparentImage>>

ImageIds == DOMAIN Images

(***************************************************************************)
(* The body of img.onload in analyzeImage: resize, draw, analyse.          *)
(***************************************************************************)
LoadCanvas(cv, img) == drawImage(SetCanvasSize(cv, img.width, img.height), img)

\* dimensions: { width: img.height, height: img.width }
DimensionsSwapped(img) == [width |-> img.height, height |-> img.width]

\* dimensions: { width: img.width, height: img.height }
Dimensions(img) == [width |-> img.width, height |-> img.height]

\* the AnalysisResult resolved, from the detected elements
ResultWith(cv, img, detected) ==
    [colors |-> extractColors(cv),
     elements |-> detected,
     layout |-> analyzeLayout(cv, detected),
     dimensions |-> Dimensions(img)]

AnalyzeCanvas(cv, img) == ResultWith(cv, img, detectElements(cv))

\* a getImageData that accepts an empty source rectangle
IndexSizeErrorNever(sw, sh) == FALSE

\* ctx.getImageData(sx, sy, sw, sh) throws an IndexSizeError when sw or sh
\* is zero
IndexSizeError(sw, sh) == sw = 0 \/ sh = 0

\* classifyElement throws for one of the rectangles: its getImageData does
ClassifyThrows(rectangles) ==
    \E k \in DOMAIN rectangles : IndexSizeError(rectangles[k].width, rectangles[k].height)

\* the try block of img.onload throws: in extractColors, in detectElements
\* or in the classifyElement of a rectangle found
OnloadThrows(cv) ==
    \/ IndexSizeError(cv.width, cv.height)
    \/ ClassifyThrows(findRectangles(cv,
            detectEdges(getImageData(cv, 0, 0, cv.width, cv.height))))

\* the result of analysing image i on a canvas that holds nothing else
AloneResult(i) == AnalyzeCanvas(LoadCanvas(EmptyCanvas, Images[i]), Images[i])

\* AnalyzeCanvas(cv, Images[i]), read from the table of results when cv is
\* a canvas the table was computed for
AnalyzeLoaded(cv, i, table) ==
    IF cv = LoadCanvas(EmptyCanvas, Images[i])
    THEN table[i]
    ELSE AnalyzeCanvas(cv, Images[i])

(***************************************************************************)
(* State                                                                   *)
(***************************************************************************)
VARIABLES
    canvas,     \* ImageAnalyzer instance -> its canvas
    pending,    \* the analyzeImage calls whose image has not loaded yet
    log,        \* the resolved analyzeImage calls, in the order they resolved
    started,    \* the number of analyzeImage calls made so far
    alone,      \* image -> its analysis by an analyzer that analysed nothing else
    buffer,     \* one decoded image handed to a fresh analyzer
    bufResult,  \* its analysis, once made
    bufSettled, \* "pending", then "resolved" or "rejected"
    helperCall,    \* the last call of a helper method and its arguments
    helperResult,  \* what that call returned
    scanPos,         \* the number of seeds the loops of findRectangles are past
    scanRectangles,  \* the rectangles pushed so far
    scanLast,        \* what the last iteration of the inner loop did
    layoutCanvas,    \* the canvas of the analyzer whose analyzeLayout is called
    layoutPool,      \* the bounds an element of the list may have
    layoutElements,  \* the element list handed to analyzeLayout
    layoutResult,    \* the LayoutAnalysis returned, once made
    apiKey,          \* process.env.NEXT_PUBLIC_OPENAI_API_KEY
    uploadedImage,   \* the state hooks of the Home component
    generatedCode,
    isProcessing,
    analysisResult,
    analysisMethod,
    generatedPage,
    codeQuality,
    calls,           \* the handleImageUpload invocations awaiting a promise
    completed,       \* what each finished invocation did and left behind
    uploads          \* the number of handleImageUpload invocations so far

analyzerVars == <<canvas, pending, log, started, alone>>

bufferVars == <<buffer, bufResult, bufSettled>>

scanVars == <<scanPos, scanRectangles, scanLast>>

helperVars == <<helperCall, helperResult, scanVars>>

layoutVars == <<layoutCanvas, layoutPool, layoutElements, layoutResult>>

hookVars ==
    <<uploadedImage, generatedCode, isProcessing, analysisResult, analysisMethod,
      generatedPage, codeQuality>>

pageVars == <<apiKey, hookVars, calls, completed, uploads>>

vars == <<analyzerVars, bufferVars, layoutVars, pageVars, helperVars>>

None == [none |-> TRUE]

\* bounds of the analyzer model
NumInstances == 2

MaxCalls == 3

Instances == 1..NumInstances

AnalyzerIdle ==
    /\ canvas = [a \in Instances |-> EmptyCanvas]
    /\ pending = {}
    /\ log = <<>>
    /\ started = 0

BufferIdle ==
    /\ buffer = None
    /\ bufResult = None
    /\ bufSettled = "pending"

HelperIdle ==
    /\ helperCall = [fn |-> "none"]
    /\ helperResult = None
    /\ scanPos = 0
    /\ scanRectangles = <<>>
    /\ scanLast = None

LayoutIdle ==
    /\ layoutCanvas = EmptyCanvas
    /\ layoutPool = {}
    /\ layoutElements = <<>>
    /\ layoutResult = None

\* the Home component as first rendered, no key configured
PageIdle ==
    /\ apiKey = "unset"
    /\ uploadedImage = None
    /\ generatedCode = [by |-> "none"]
    /\ isProcessing = FALSE
    /\ analysisResult = None
    /\ analysisMethod = "canvas"
    /\ generatedPage = None
    /\ codeQuality = 0
    /\ calls = {}
    /\ completed = <<>>
    /\ uploads = 0

(***************************************************************************)
(* ImageAnalyzer.analyzeImage, any number of calls on shared instances     *)
(***************************************************************************)
InitAnalyzer ==
    /\ canvas = [a \in Instances |-> EmptyCanvas]
    /\ pending = {}
    /\ log = <<>>
    /\ started = 0
    /\ alone = [i \in ImageIds |-> AloneResult(i)]
    /\ BufferIdle /\ LayoutIdle /\ PageIdle /\ HelperIdle

\* the instances constructed so far, and the next one
UsedInstances == {c.inst : c \in pending} \cup {log[k].inst : k \in DOMAIN log}

\* analyzeImage(imageUrl) up to img.src = imageUrl: the call is in flight
analyzeImage(a, i) ==
    /\ started < MaxCalls
    /\ \A b \in Instances : b < a => b \in UsedInstances
    /\ started' = started + 1
    /\ pending' = {[c EXCEPT !.overlapped = TRUE] : c \in pending}
                  \cup {[id |-> started + 1, inst |-> a, img |-> i,
                         overlapped |-> pending # {}]}
    /\ UNCHANGED <<canvas, log, alone, bufferVars, layoutVars, pageVars, helperVars>>

\* onload reading the image of the latest call made on the instance, as
\* if analyzeImage kept the image in a field of the analyzer
onloadLatestImage(c) ==
    /\ c \in pending
    /\ LET same == {d \in pending : d.inst = c.inst}
           latest == CHOOSE d \in same : \A e \in same : e.id <= d.id
       IN  /\ canvas' = [canvas EXCEPT ![c.inst] = LoadCanvas(@, Images[latest.img])]
           /\ log' = Append(log, [id |-> c.id, inst |-> c.inst, img |-> c.img,
                                  overlapped |-> c.overlapped,
                                  result |-> AnalyzeLoaded(canvas'[c.inst], latest.img, alone)])
    /\ pending' = pending \ {c}
    /\ UNCHANGED <<started, alone, bufferVars, layoutVars, pageVars, helperVars>>

\* img.onload of call c: runs to completion and resolves the promise
onload(c) ==
    /\ c \in pending
    /\ canvas' = [canvas EXCEPT ![c.inst] = LoadCanvas(@, Images[c.img])]
    /\ log' = Append(log, [id |-> c.id, inst |-> c.inst, img |-> c.img,
                           overlapped |-> c.overlapped,
                           result |-> AnalyzeLoaded(canvas'[c.inst], c.img, alone)])
    /\ pending' = pending \ {c}
    /\ UNCHANGED <<started, alone, bufferVars, layoutVars, pageVars, helperVars>>

NextAnalyzer ==
    \/ \E a \in Instances, i \in ImageIds : analyzeImage(a, i)
    \/ \E c \in pending : onload(c)

SpecAnalyzer == InitAnalyzer /\ [][NextAnalyzer]_vars

(***************************************************************************)
(* One analyzeImage call on a new ImageAnalyzer, over a family of buffers  *)
(***************************************************************************)
SemiBlue == Px(0, 0, 255, 128)

\* buffers of one colour
UniformSizes == {<<1, 1>>, <<20, 20>>, <<21, 45>>, <<64, 48>>, <<100, 100>>, <<130, 41>>}

UniformColours == {White, Blue, Red, DarkGray}

UniformBuffers == {MkImage(sz[1], sz[2], c, <<>>) : sz \in UniformSizes, c \in UniformColours}

\* buffers with one rectangle on a background
RectBuffers ==
    {MkImage(sz[1], sz[2], bg, <<ImgRect(x, 20, w, h, c)>>) :
        sz \in {<<120, 80>>, <<100, 100>>},
        bg \in {White, TransparentBlack},
        x \in {20, 30}, w \in {40, 70}, h \in {30, 60},
        c \in {Blue, Red, SemiBlue}}

\* buffers without a pixel
EmptyBuffers == {MkImage(sz[1], sz[2], White, <<>>) : sz \in {<<0, 0>>, <<0, 40>>, <<64, 0>>}}

\* fully transparent buffers, and buffers narrower or lower than a seed window
SmallBuffers ==
    {MkImage(sz[1], sz[2], TransparentBlack, <<>>) : sz \in {<<1, 1>>, <<64, 48>>}}
    \cup {MkImage(sz[1], sz[2], White, <<ImgRect(2, 2, 6, 6, c)>>) :
              sz \in {<<12, 90>>, <<90, 12>>, <<20, 20>>}, c \in {Blue, SemiBlue}}

\* a rectangle whose pixel at the first seed inside it has another colour
SpeckBuffers ==
    {MkImage(120, 80, White, <<ImgRect(20, 20, 80, 40, c), ImgRect(20, 20, 1, 1, d)>>) :
        c \in {Blue, Red}, d \in {White, DarkGray}}

Green == Px(0, 128, 0, 255)

Yellow == Px(255, 255, 0, 255)

Purple == Px(128, 0, 128, 255)

\* buffers 10 wide, sampled at the first pixel of every tenth row, with
\* stripes of six and of seven colours
StripedBuffers ==
    {MkImage(10, 150, bg,
             <<ImgRect(0, 0, 10, 10, Red), ImgRect(0, 10, 10, 50, Blue),
               ImgRect(0, 60, 10, 20, DarkGray), ImgRect(0, 80, 10, 10, Green),
               ImgRect(0, 90, 10, 10, Yellow), ImgRect(0, 100, 10, h, c)>>) :
        bg \in {White, TransparentBlack}, h \in {10, 30}, c \in {Purple, Red, SemiBlue}}

Gray == Px(128, 128, 128, 255)

\* buffers 10 wide on gray with stripes of five or six more colours, the
\* last two sampled once each; only blue contrasts with gray by more than 3
AccentBuffers ==
    {MkImage(10, 200, Gray,
             <<ImgRect(0, 10, 10, 40, White), ImgRect(0, 50, 10, 30, Red),
               ImgRect(0, 80, 10, 20, Green), ImgRect(0, 100, 10, 20, Yellow),
               ImgRect(0, 120, 10, 10, c), ImgRect(0, 130, 10, 10, d)>>) :
        c \in {Purple, Blue}, d \in {Purple, Blue, Yellow}}

NearBlue == Px(0, 0, 230, 255)

\* a rectangle whose first row is opaque and whose other rows have a colour
\* within the expansion tolerance of it, of alpha 128 or opaque
TwoToneBuffers ==
    {MkImage(120, 80, White, <<ImgRect(20, 20, 80, 40, NearBlue), ImgRect(20, 21, 80, 39, c)>>) :
        c \in {SemiBlue, Blue}}

Buffers ==
    UniformBuffers \cup RectBuffers \cup EmptyBuffers \cup SmallBuffers \cup SpeckBuffers
        \cup StripedBuffers \cup AccentBuffers \cup TwoToneBuffers

InitBuffers ==
    /\ AnalyzerIdle /\ LayoutIdle /\ PageIdle /\ HelperIdle
    /\ alone = <<>>
    /\ buffer \in Buffers
    /\ bufResult = None
    /\ bufSettled = "pending"

\* new ImageAnalyzer().analyzeImage(url of buffer), to the settled promise:
\* resolve(...) at the end of the try block, reject(error) in its catch
AnalyzeBuffer ==
    /\ bufSettled = "pending"
    /\ IF OnloadThrows(LoadCanvas(EmptyCanvas, buffer))
       THEN bufSettled' = "rejected" /\ bufResult' = None
       ELSE /\ bufSettled' = "resolved"
            /\ bufResult' = AnalyzeCanvas(LoadCanvas(EmptyCanvas, buffer), buffer)
    /\ UNCHANGED <<buffer, analyzerVars, layoutVars, pageVars, helperVars>>

NextBuffers == AnalyzeBuffer

SpecBuffers == InitBuffers /\ [][NextBuffers]_vars

(***************************************************************************)
(* analyzeLayout on element lists.  The lists are drawn from the bounds    *)
(* reached from a first element: copies stacked below it 16px apart,       *)
(* copies one column to the right and one row down, 20px apart, and a copy *)
(* that overlaps it, 4px to the right and 6px down.                        *)
(***************************************************************************)
\* bound of the layout model: the longest element list
MaxElements == 4

Bounds(x, y, w, h) == [x |-> x, y |-> y, width |-> w, height |-> h]

\* <<width, height>> of the first element: button-sized and square
LayoutSizes ==
    {<<80, 20>>, <<80, 34>>, <<80, 35>>, <<120, 40>>, <<8, 8>>, <<40, 40>>, <<100, 100>>}

LayoutOrigins == {<<0, 0>>, <<24, 40>>}

LayoutCanvases == {SetCanvasSize(EmptyCanvas, 400, 300)}

PoolFrom(x, y, w, h) ==
    {Bounds(x, y + k * (h + 16), w, h) : k \in 0..3}
    \cup {Bounds(x + i * (w + 20), y + j * (h + 20), w, h) : i \in 0..1, j \in 0..1}
    \cup {Bounds(x + 4, y + 6, w, h)}

\* a DetectedElement with the given bounds, typed as classifyElement types
\* it (a container where it would drop it)
ElementAt(b) ==
    [type |-> IF ClassifyRule(b.width, b.height)[1] = "null"
              THEN "container" ELSE ClassifyRule(b.width, b.height)[1],
     bounds |-> b,
     colors |-> [background |-> HexWhite],
     confidence |-> IF ClassifyRule(b.width, b.height)[1] = "null"
                    THEN 4 ELSE ClassifyRule(b.width, b.height)[2]]

InitLayout ==
    /\ AnalyzerIdle /\ BufferIdle /\ PageIdle /\ HelperIdle
    /\ alone = <<>>
    /\ layoutCanvas \in LayoutCanvases
    /\ \E o \in LayoutOrigins, sz \in LayoutSizes :
           layoutPool = PoolFrom(o[1], o[2], sz[1], sz[2])
    /\ layoutElements = <<>>
    /\ layoutResult = None

\* one more element, not yet in the list, is detected
AddElement(b) ==
    /\ layoutResult = None
    /\ Len(layoutElements) < MaxElements
    /\ \A k \in DOMAIN layoutElements : layoutElements[k].bounds # b
    /\ layoutElements' = Append(layoutElements, ElementAt(b))
    /\ UNCHANGED <<layoutCanvas, layoutPool, layoutResult, analyzerVars, bufferVars,
                   pageVars, helperVars>>

\* this.analyzeLayout(elements)
AnalyzeLayoutOfList ==
    /\ layoutResult = None
    /\ layoutResult' = analyzeLayout(layoutCanvas, layoutElements)
    /\ UNCHANGED <<layoutCanvas, layoutPool, layoutElements, analyzerVars, bufferVars,
                   pageVars, helperVars>>

NextLayout ==
    \/ \E b \in layoutPool : AddElement(b)
    \/ AnalyzeLayoutOfList

SpecLayout == InitLayout /\ [][NextLayout]_vars

(***************************************************************************)
(* The helper methods of ImageAnalyzer: one call of one of them on an       *)
(* analyzer, for every choice of its arguments                             *)
(***************************************************************************)
HelperColours ==
    {toHex(p.r, p.g, p.b) : p \in {White, Blue, Red, DarkGray, Green, Yellow, Purple}}
    \cup {toHex(0, 0, 0), toHex(128, 128, 128), toHex(1, 0, 0), toHex(0, 0, 3),
          toHex(254, 255, 255)}

HelperWidths == {0, 30, 59, 60, 99, 100, 120, 160, 240, 300, 301, 480}

HelperHeights == {0, 10, 19, 20, 24, 25, 30, 40, 41, 60, 61, 80, 81, 100, 200}

\* the canvas of the analyzer whose helpers are called
HelperCanvas == LoadCanvas(EmptyCanvas, MkImage(40, 40, Blue, <<>>))

InitHelpers ==
    /\ AnalyzerIdle /\ BufferIdle /\ LayoutIdle /\ PageIdle
    /\ alone = <<>>
    /\ HelperIdle

\* this.getContrast(color1, color2)
CallGetContrast(color1, color2) ==
    /\ helperCall.fn = "none"
    /\ helperCall' = [fn |-> "getContrast", color1 |-> color1, color2 |-> color2]
    /\ helperResult' = getContrast(color1, color2)
    /\ UNCHANGED <<analyzerVars, bufferVars, layoutVars, pageVars, scanVars>>

\* this.classifyElement(rect) for a rectangle at the origin; its
\* getImageData throws for an empty rectangle
CallClassifyElement(w, h) ==
    /\ helperCall.fn = "none"
    /\ helperCall' = [fn |-> "classifyElement", rect |-> Bounds(0, 0, w, h)]
    /\ helperResult' = IF IndexSizeError(w, h)
                       THEN [threw |-> "IndexSizeError"]
                       ELSE classifyElement(HelperCanvas, Bounds(0, 0, w, h))
    /\ UNCHANGED <<analyzerVars, bufferVars, layoutVars, pageVars, scanVars>>

\* left edges and top edges of the 40 x 40 elements whose alignment is asked
AlignmentXs == {0, 100, 180, 200, 230, 300}

AlignmentYs == {0, 130, 250}

\* lists of one or two such elements
AlignmentLists ==
    LET one == {ElementAt(Bounds(x, y, 40, 40)) : x \in AlignmentXs, y \in AlignmentYs}
    IN  {<<a>> : a \in one} \cup {<<a, b>> : a \in one, b \in one}

\* this.determineAlignment(elements) on an analyzer with the given canvas
CallDetermineAlignment(cv, elements) ==
    /\ helperCall.fn = "none"
    /\ helperCall' = [fn |-> "determineAlignment", canvas |-> cv, elements |-> elements]
    /\ helperResult' = [alignment |-> determineAlignment(cv, elements)]
    /\ UNCHANGED <<analyzerVars, bufferVars, layoutVars, pageVars, scanVars>>

\* images with a rectangle that expands from its first seed to a width of
\* 30 or 32 and a height of 20 or 22
ThresholdImages ==
    {MkImage(120, 80, White, <<ImgRect(20, 20, w, h, Blue)>>) : w \in {31, 33}, h \in {21, 23}}

\* the images whose rectangles are searched
ScanImages ==
    {ButtonImage, StackImage, TransparentImage} \cup ThresholdImages \cup SpeckBuffers

\* edge maps of the size of the canvas: the one of its contents, and the one
\* of a canvas of that size nothing was drawn on
EdgeMaps(cv) ==
    {detectEdges(getImageData(cv, 0, 0, cv.width, cv.height)),
     detectEdges(getImageData(SetCanvasSize(EmptyCanvas, cv.width, cv.height),
                              0, 0, cv.width, cv.height))}

\* the number of values the loop variables y and x of findRectangles take
SeedRows(edges) == Cardinality(Steps(edges.height - 20, 20))

SeedColumns(edges) == Cardinality(Steps(edges.width - 20, 20))

\* the seeds taken column by column
SeedAtColumnFirst(pos, nRows, nCols) == [x |-> 20 * (pos \div nRows), y |-> 20 * (pos % nRows)]

\* the seed (x, y) of the iteration of the inner loop that pos iterations precede
SeedAt(pos, nRows, nCols) == [x |-> 20 * (pos % nCols), y |-> 20 * (pos \div nCols)]

\* this.findRectangles(edges) is entered on an analyzer with the given canvas
CallFindRectangles(cv, edges) ==
    /\ helperCall.fn = "none"
    /\ helperCall' = [fn |-> "findRectangles", canvas |-> cv, edges |-> edges]
    /\ UNCHANGED <<helperResult, analyzerVars, bufferVars, layoutVars, pageVars, scanVars>>

\* one iteration of the inner loop for the seed (x, y) whose region was analysed
SeedIteration(cv, originalData, x, y, region) ==
    /\ scanRectangles' = SeedResult(cv, originalData, x, y, region, scanRectangles)
    /\ scanLast' = [x |-> x, y |-> y, visited |-> FALSE,
                    isUIElement |-> region.isUIElement, avgColor |-> region.avgColor,
                    bounds |-> IF region.isUIElement
                               THEN expandRegion(cv, originalData, x, y, region.avgColor)
                               ELSE None]

\* one iteration of the inner loop for the seed (x, y): `continue` for a
\* visited seed
SeedVisit(cv, originalData, x, y) ==
    IF IsVisited(scanRectangles, x, y)
    THEN /\ scanRectangles' = scanRectangles
         /\ scanLast' = [x |-> x, y |-> y, visited |-> TRUE, isUIElement |-> FALSE,
                         avgColor |-> HexWhite, bounds |-> None]
    ELSE SeedIteration(cv, originalData, x, y, analyzeRegion(originalData, x, y, 20, 20))

\* the loops of findRectangles advance by one seed
ScanSeed ==
    /\ helperCall.fn = "findRectangles"
    /\ helperResult = None
    /\ scanPos < SeedRows(helperCall.edges) * SeedColumns(helperCall.edges)
    /\ scanPos' = scanPos + 1
    /\ SeedVisit(helperCall.canvas,
                 getImageData(helperCall.canvas, 0, 0,
                              helperCall.edges.width, helperCall.edges.height),
                 SeedAt(scanPos, SeedRows(helperCall.edges), SeedColumns(helperCall.edges)).x,
                 SeedAt(scanPos, SeedRows(helperCall.edges), SeedColumns(helperCall.edges)).y)
    /\ UNCHANGED <<helperCall, helperResult, analyzerVars, bufferVars, layoutVars, pageVars>>

\* return rectangles
ReturnRectangles ==
    /\ helperCall.fn = "findRectangles"
    /\ helperResult = None
    /\ scanPos = SeedRows(helperCall.edges) * SeedColumns(helperCall.edges)
    /\ helperResult' = [rectangles |-> scanRectangles]
    /\ UNCHANGED <<helperCall, analyzerVars, bufferVars, layoutVars, pageVars, scanVars>>

NextHelpers ==
    \/ \E color1, color2 \in HelperColours : CallGetContrast(color1, color2)
    \/ \E w \in HelperWidths, h \in HelperHeights : CallClassifyElement(w, h)
    \/ \E cv \in LayoutCanvases, elements \in AlignmentLists :
           CallDetermineAlignment(cv, elements)
    \/ \E img \in ScanImages :
           \E edges \in EdgeMaps(LoadCanvas(EmptyCanvas, img)) :
               CallFindRectangles(LoadCanvas(EmptyCanvas, img), edges)
    \/ ScanSeed
    \/ ReturnRectangles

SpecHelpers == InitHelpers /\ [][NextHelpers]_vars

(***************************************************************************)
(* VisionAnalyzer.  What the completion request delivers is a failure of   *)
(* the call, a reply without content, or a text; of a text the model keeps *)
(* what parseVisionResponse reads: whether it contains "unable to",        *)
(* whether a JSON object can be extracted from it and, of that object,     *)
(* whether it has an "error" key, what "elements" is and what "pageLayout" *)
(* is.                                                                     *)
(***************************************************************************)
\* a reply without a layout key
NoLayout == [type |-> "undefined", direction |-> "undefined"]

VisionOutcome(kind, unable, json, error, elements, pageLayout) ==
    [kind |-> kind, unable |-> unable, json |-> json, error |-> error,
     elements |-> elements, pageLayout |-> pageLayout, layout |-> NoLayout]

NoOutcome == VisionOutcome("none", FALSE, FALSE, FALSE, "absent", "absent")

ApiError == VisionOutcome("apiError", FALSE, FALSE, FALSE, "absent", "absent")

EmptyReply == VisionOutcome("empty", FALSE, FALSE, FALSE, "absent", "absent")

\* "I'm unable to analyze this image."
RefusalReply == VisionOutcome("text", TRUE, FALSE, FALSE, "absent", "absent")

\* prose from which no JSON object can be extracted
ProseReply == VisionOutcome("text", FALSE, FALSE, FALSE, "absent", "absent")

\* {"error": "Analysis failed"}, the reply the prompt prescribes for failure
ErrorReply == VisionOutcome("text", FALSE, TRUE, TRUE, "absent", "absent")

\* {"elements": {...}}: JSON whose elements is no array
MalformedReply == VisionOutcome("text", FALSE, TRUE, FALSE, "object", "absent")

\* an analysis, without pageLayout, with a pageLayout that has sections, and
\* with a pageLayout that has none
ComponentReply == VisionOutcome("text", FALSE, TRUE, FALSE, "array", "absent")

PageReply == VisionOutcome("text", FALSE, TRUE, FALSE, "array", "sections")

PartialPageReply == VisionOutcome("text", FALSE, TRUE, FALSE, "array", "noSections")

\* an analysis whose layout has the given type and direction
LayoutReply(type, direction) ==
    [ComponentReply EXCEPT !.layout = [type |-> type, direction |-> direction]]

LayoutReplies ==
    {LayoutReply("flex", "column"), LayoutReply("grid", "row"),
     LayoutReply("grid", "undefined"), LayoutReply("stack", "diagonal")}

VisionOutcomes ==
    {ApiError, EmptyReply, RefusalReply, ProseReply, ErrorReply, MalformedReply,
     ComponentReply, PageReply, PartialPageReply} \cup LayoutReplies

createFallbackAnalysis ==
    [by |-> "vision",
     elements |-> <<>>,
     layout |-> [type |-> "absolute", direction |-> "column", alignment |-> "start",
                 gap |-> 16, padding |-> 24],
     dimensions |-> [width |-> 800, height |-> 600],
     pageLayout |-> "absent"]

\* validateElements(parsed.elements || []) of an array: one button stands
\* for the validated elements
validateElements(elements) ==
    IF elements = "absent" THEN <<>>
    ELSE << [type |-> "button", bounds |-> [x |-> 0, y |-> 0, width |-> 100, height |-> 40],
             confidence |-> 8] >>

\* validateLayout(layout), of its type and direction: a key whose value
\* is undefined is left out
validateLayout(layout) ==
    LET type == IF layout.type \in {"flex", "grid", "absolute"}
                THEN layout.type ELSE "absolute"
    IN  IF layout.direction \in {"row", "column"}
        THEN [type |-> type, direction |-> layout.direction]
        ELSE [type |-> type]

parseVisionResponse(response) ==
    IF response.unable THEN None
    ELSE IF ~response.json THEN None
    ELSE IF response.elements = "object" THEN createFallbackAnalysis
    ELSE [by |-> "vision",
          elements |-> validateElements(response.elements),
          layout |-> validateLayout(response.layout),
          dimensions |-> [width |-> 800, height |-> 600],
          pageLayout |-> response.pageLayout]

analyzeWithVision(openai, outcome) ==
    IF ~openai THEN None
    ELSE IF outcome.kind = "apiError" THEN None
    ELSE IF outcome.kind = "empty" THEN None
    ELSE parseVisionResponse(outcome)

\* generatePageLayout(analysis) throws a TypeError reading sections.length
PageLayoutThrows(analysis) == analysis.pageLayout = "noSections"

generatePageLayout(analysis) ==
    IF analysis.pageLayout = "absent"
    THEN [page |-> "component", by |-> analysis.by]
    ELSE [page |-> "sections", by |-> analysis.by]

(***************************************************************************)
(* The Home component: handleImageUpload and the Upload New button         *)
(***************************************************************************)
\* bound of the page model: the number of uploads
MaxUploads == 2

ApiKeys == {"unset", "other", "sk-"}

\* apiKey && apiKey.startsWith("sk-")
KeyUsable == apiKey = "sk-"

\* the images uploaded, of Images
UploadImages == {i \in ImageIds : Images[i] \in {ButtonImage, TransparentImage}}

InitPage ==
    /\ AnalyzerIdle /\ BufferIdle /\ LayoutIdle /\ HelperIdle
    /\ alone = [i \in UploadImages |-> AloneResult(i)]
    /\ apiKey \in ApiKeys
    /\ uploadedImage = None
    /\ generatedCode = [by |-> "none"]
    /\ isProcessing = FALSE
    /\ analysisResult = None
    /\ analysisMethod = "canvas"
    /\ generatedPage = None
    /\ codeQuality = 0
    /\ calls = {}
    /\ completed = <<>>
    /\ uploads = 0

\* what a finished invocation did, and what the hooks show as it ends
Completion(c, method, result) ==
    [id |-> c.id, vision |-> c.vision, canvas |-> c.canvas, method |-> method,
     stored |-> IF result # None /\ result.upload = c.id THEN result.by ELSE "none"]

\* handleImageUpload(imageUrl) up to its first await
handleImageUpload(i) ==
    /\ uploadedImage = None
    /\ uploads < MaxUploads
    /\ uploads' = uploads + 1
    /\ uploadedImage' = [upload |-> uploads + 1, img |-> i]
    /\ isProcessing' = TRUE
    /\ calls' = calls \cup {[id |-> uploads + 1, img |-> i,
                              pc |-> IF KeyUsable THEN "vision" ELSE "canvas",
                              vision |-> NoOutcome,
                              canvas |-> IF KeyUsable THEN "none" ELSE "pending"]}
    /\ UNCHANGED <<apiKey, generatedCode, analysisResult, analysisMethod, generatedPage,
                   codeQuality, completed, analyzerVars, bufferVars, layoutVars, helperVars>>

\* the catch and finally blocks; c is the invocation as it ends, result
\* the analysis result the component holds then
Caught(c, result) ==
    /\ analysisMethod' = "failed"
    /\ generatedCode' = [by |-> "generateMockCode"]
    /\ isProcessing' = FALSE
    /\ calls' = {d \in calls : d.id # c.id}
    /\ completed' = Append(completed, Completion(c, "failed", result))

\* the branch  if (analysis)  up to its await or its end
Store(c, analysis, method) ==
    /\ analysisResult' = [upload |-> c.id, by |-> analysis.by, analysis |-> analysis]
    /\ IF PageLayoutThrows(analysis)
       THEN /\ Caught(c, analysisResult')
            /\ UNCHANGED <<generatedPage, codeQuality>>
       ELSE /\ analysisMethod' = method
            /\ generatedPage' = generatePageLayout(analysis)
            /\ IF method = "vision"
               THEN /\ calls' = {d \in calls : d.id # c.id} \cup {[c EXCEPT !.pc = "refine"]}
                    /\ UNCHANGED <<generatedCode, codeQuality, isProcessing, completed>>
               ELSE /\ generatedCode' = [by |-> "generateChakraCode"]
                    /\ isProcessing' = FALSE
                    /\ calls' = {d \in calls : d.id # c.id}
                    /\ completed' = Append(completed, Completion(c, method, analysisResult'))
                    /\ UNCHANGED codeQuality

\* await visionAnalyzer.analyzeWithVision(imageUrl) settles
VisionSettles(c, outcome) ==
    /\ c \in calls /\ c.pc = "vision"
    /\ IF analyzeWithVision(TRUE, outcome) # None
       THEN Store([c EXCEPT !.vision = outcome], analyzeWithVision(TRUE, outcome), "vision")
       ELSE /\ calls' = (calls \ {c}) \cup
                           {[c EXCEPT !.vision = outcome, !.pc = "canvas", !.canvas = "pending"]}
            /\ UNCHANGED <<hookVars, completed>>
    /\ UNCHANGED <<apiKey, uploadedImage, uploads, analyzerVars, bufferVars, layoutVars,
                   helperVars>>

\* the result of  new ImageAnalyzer().analyzeImage(imageUrl)
CanvasAnalysis(i) ==
    [by |-> "canvas",
     result |-> alone[i],
     pageLayout |-> "absent"]

\* await canvasAnalyzer.analyzeImage(imageUrl) settles: the image loaded and
\* the promise resolves, or it did not and the promise rejects
CanvasSettles(c, loaded) ==
    /\ c \in calls /\ c.pc = "canvas"
    /\ IF loaded
       THEN Store([c EXCEPT !.canvas = "resolved"], CanvasAnalysis(c.img), "canvas")
       ELSE /\ Caught([c EXCEPT !.canvas = "rejected"], analysisResult)
            /\ UNCHANGED <<analysisResult, generatedPage, codeQuality>>
    /\ UNCHANGED <<apiKey, uploadedImage, uploads, analyzerVars, bufferVars, layoutVars,
                   helperVars>>

\* refinedResult.qualityScore, the score of the final validation
QualityScores == {60, 100}

\* await refinementEngine.refineGeneratedCode(...) settles
RefineSettles(c, qualityScore) ==
    /\ c \in calls /\ c.pc = "refine"
    /\ codeQuality' = qualityScore
    /\ generatedCode' = [by |-> "refineGeneratedCode"]
    /\ isProcessing' = FALSE
    /\ calls' = calls \ {c}
    /\ completed' = Append(completed, Completion(c, analysisMethod, analysisResult))
    /\ UNCHANGED <<apiKey, uploadedImage, uploads, analysisResult, analysisMethod,
                   generatedPage, analyzerVars, bufferVars, layoutVars, helperVars>>

\* onClick of the Upload New button
UploadNew ==
    /\ uploadedImage # None
    /\ uploadedImage' = None
    /\ generatedCode' = [by |-> "none"]
    /\ analysisResult' = None
    /\ analysisMethod' = "canvas"
    /\ generatedPage' = None
    /\ codeQuality' = 0
    /\ UNCHANGED <<apiKey, isProcessing, calls, completed, uploads,
                   analyzerVars, bufferVars, layoutVars, helperVars>>

NextPage ==
    \/ \E i \in UploadImages : handleImageUpload(i)
    \/ \E c \in calls, outcome \in VisionOutcomes : VisionSettles(c, outcome)
    \/ \E c \in calls, loaded \in BOOLEAN : CanvasSettles(c, loaded)
    \/ \E c \in calls, qualityScore \in QualityScores : RefineSettles(c, qualityScore)
    \/ UploadNew

SpecPage == InitPage /\ [][NextPage]_vars

(***************************************************************************)
(* Properties of the heuristic analyzer                                    *)
(***************************************************************************)
\* C1: every element returned by analyzeImage has confidence in [0, 1] and
\* bounds inside the buffer: x >= 0, y >= 0, x + width <= W, y + height <= H
ElementsWithinBuffer ==
    bufResult # None =>
        \A k \in DOMAIN bufResult.elements :
            LET e == bufResult.elements[k]
            IN  /\ e.confidence >= 0 /\ e.confidence <= 10
                /\ e.bounds.x >= 0 /\ e.bounds.y >= 0
                /\ e.bounds.x + e.bounds.width <= buffer.width
                /\ e.bounds.y + e.bounds.height <= buffer.height

\* a buffer was analysed and an element away from the origin came out
ElementsWithinBufferWitness ==
    /\ bufResult # None
    /\ \E k \in DOMAIN bufResult.elements : bufResult.elements[k].bounds.x > 0

\* C10: a buffer whose pixels are all opaque and of one colour c gives
\* colors.dominant = c, no elements and the layout type "absolute"
UniformBufferResult ==
    (bufResult # None /\ buffer.rects = <<>> /\ buffer.bg.a = 255) =>
        /\ bufResult.colors.dominant = toHex(buffer.bg.r, buffer.bg.g, buffer.bg.b)
        /\ bufResult.elements = <<>>
        /\ bufResult.layout.type = "absolute"

\* a uniform non-white buffer large enough to hold seeds has been analysed
UniformBufferResultWitness ==
    /\ bufResult # None
    /\ buffer.rects = <<>> /\ buffer.bg = Blue
    /\ buffer.width = 100 /\ buffer.height = 100
    /\ bufResult.colors.dominant = toHex(0, 0, 255)

\* C3: all analyses of the same image give the same result, whichever
\* instance ran them and whatever that instance analysed before
RepeatedAnalysisAgrees ==
    \A j, k \in DOMAIN log :
        log[j].img = log[k].img => log[j].result = log[k].result

\* one instance analysed an image, then a different one, then the first again
RepeatedAnalysisAgreesWitness ==
    \E j, k, l \in DOMAIN log :
        /\ j < k /\ k < l
        /\ log[j].inst = log[k].inst /\ log[k].inst = log[l].inst
        /\ log[j].img = log[l].img /\ log[k].img # log[j].img
        /\ log[j].result.elements # <<>>

\* C4: a call that was in flight together with another call resolves with
\* the result of analysing its own image alone
OverlappedCallsAlone ==
    \A k \in DOMAIN log :
        log[k].overlapped => log[k].result = alone[log[k].img]

\* two overlapping calls on one instance, for different images, resolved in
\* the reverse of the order they were made in
OverlappedCallsAloneWitness ==
    \E j, k \in DOMAIN log :
        /\ j < k /\ log[j].id > log[k].id
        /\ log[j].overlapped /\ log[k].overlapped
        /\ log[j].inst = log[k].inst /\ log[j].img # log[k].img

\* C7: analysing Scenario B gives exactly one element, a button of
\* confidence 0.8
ScenarioBOneButton ==
    \A k \in DOMAIN log :
        Images[log[k].img] = ScenarioB =>
            /\ Len(log[k].result.elements) = 1
            /\ log[k].result.elements[1].type = "button"
            /\ log[k].result.elements[1].confidence = 8

(***************************************************************************)
(* Properties of analyzeLayout                                             *)
(***************************************************************************)
\* C2: for a list of fewer than 2 elements analyzeLayout returns the type
\* "absolute" and no other field (no direction, alignment, gap or padding)
FewElementsAbsoluteOnly ==
    (layoutResult # None /\ Len(layoutElements) < 2) =>
        /\ DOMAIN layoutResult = {"type"}
        /\ layoutResult.type = "absolute"

\* a list of exactly one element has been analysed
FewElementsAbsoluteOnlyWitness ==
    /\ layoutResult # None
    /\ Len(layoutElements) = 1
    /\ layoutResult.type = "absolute"

\* the list holds four button-sized elements of one size and one x, stacked
\* with 16px between each and the next, in any order
IsButtonColumn ==
    /\ Len(layoutElements) = 4
    /\ ClassifyRule(layoutElements[1].bounds.width, layoutElements[1].bounds.height)[1]
           = "button"
    /\ \A k \in 1..4 :
           /\ layoutElements[k].bounds.width = layoutElements[1].bounds.width
           /\ layoutElements[k].bounds.height = layoutElements[1].bounds.height
           /\ layoutElements[k].bounds.x = layoutElements[1].bounds.x
    /\ \E y0 \in {layoutElements[k].bounds.y : k \in 1..4} :
           {layoutElements[k].bounds.y : k \in 1..4}
               = {y0 + i * (layoutElements[1].bounds.height + 16) : i \in 0..3}

\* C8 as stated: Scenario D gives flex, column, alignment "start", gap 16
ButtonColumnAlignedStart ==
    (layoutResult # None /\ IsButtonColumn) =>
        /\ layoutResult.type = "flex"
        /\ layoutResult.direction = "column"
        /\ layoutResult.alignment = "start"
        /\ layoutResult.gap = 16

\* C8 amended: Scenario D gives flex, column, gap 16, and the alignment is
\* "space-between" when height + 16 > 50 and "space-around" otherwise
ButtonColumnSpaced ==
    (layoutResult # None /\ IsButtonColumn) =>
        /\ layoutResult.type = "flex"
        /\ layoutResult.direction = "column"
        /\ layoutResult.gap = 16
        /\ layoutResult.alignment =
               IF layoutElements[1].bounds.height + 16 > 50
               THEN "space-between" ELSE "space-around"

\* a column of four 80x34 buttons, given bottom-up, has been analysed
ButtonColumnSpacedWitness ==
    /\ layoutResult # None
    /\ IsButtonColumn
    /\ layoutElements[1].bounds.height = 34
    /\ layoutElements[1].bounds.y > layoutElements[4].bounds.y
    /\ layoutResult.alignment = "space-around"

\* the list holds four squares of one side in a 2x2 arrangement with 20px
\* between the columns and between the rows, in any order
IsSquareGrid ==
    /\ Len(layoutElements) = 4
    /\ \A k \in 1..4 :
           /\ layoutElements[k].bounds.width = layoutElements[1].bounds.width
           /\ layoutElements[k].bounds.height = layoutElements[1].bounds.width
    /\ \E x0 \in {layoutElements[k].bounds.x : k \in 1..4},
          y0 \in {layoutElements[k].bounds.y : k \in 1..4} :
           {<<layoutElements[k].bounds.x, layoutElements[k].bounds.y>> : k \in 1..4}
               = {x0, x0 + layoutElements[1].bounds.width + 20}
                 \X {y0, y0 + layoutElements[1].bounds.width + 20}

\* C9: Scenario C, four equal squares 2x2 with 20px gaps, gives type "grid"
SquareGridIsGrid ==
    (layoutResult # None /\ IsSquareGrid) => layoutResult.type = "grid"

\* a 2x2 arrangement of 40x40 squares away from the origin, listed with the
\* bottom-right square first, has been analysed
SquareGridIsGridWitness ==
    /\ layoutResult # None
    /\ IsSquareGrid
    /\ layoutElements[1].bounds.width = 40
    /\ \A k \in 2..4 : layoutElements[k].bounds.x <= layoutElements[1].bounds.x
                        /\ layoutElements[k].bounds.y <= layoutElements[1].bounds.y
    /\ layoutElements[1].bounds.x > 60
    /\ layoutResult.type = "grid"

(***************************************************************************)
(* Properties of handleImageUpload                                         *)
(***************************************************************************)
\* the replies after which the Vision step has not analysed the image
VisionFailures ==
    {ApiError, EmptyReply, RefusalReply, ProseReply, ErrorReply, MalformedReply}

\* C5: with a key configured the Vision step is tried first, and whenever it
\* fails (API error, empty response, a refusal, the reply
\* {"error": "Analysis failed"}, an unparseable or invalid reply) the Canvas
\* analyzer is run next and, when it resolves, its result is the one stored
VisionFailureFallsBack ==
    \A k \in DOMAIN completed :
        completed[k].vision \in VisionFailures
            => /\ completed[k].canvas # "none"
               /\ completed[k].canvas = "resolved" => completed[k].stored = "canvas"

\* C6: as an invocation of handleImageUpload ends, analysisMethod is
\* "vision" exactly when the stored result of this upload comes from the
\* VisionAnalyzer, "canvas" exactly when it comes from the ImageAnalyzer, and
\* "failed" exactly when no result was stored for this upload
MethodNamesProducer ==
    \A k \in DOMAIN completed :
        /\ completed[k].method = "vision" <=> completed[k].stored = "vision"
        /\ completed[k].method = "canvas" <=> completed[k].stored = "canvas"
        /\ completed[k].method = "failed" <=> completed[k].stored = "none"

(***************************************************************************)
(* Properties of analyzeImage on degenerate buffers                        *)
(***************************************************************************)
\* C11: for every buffer with width >= 1 and height >= 1, whatever its
\* pixels, analyzeImage resolves and never rejects; a result without
\* elements has layout.type = "absolute"
NonEmptyBufferResolves ==
    (bufSettled # "pending" /\ buffer.width >= 1 /\ buffer.height >= 1) =>
        /\ bufSettled = "resolved"
        /\ bufResult # None
        /\ bufResult.elements = <<>> => bufResult.layout = [type |-> "absolute"]

\* a buffer lower than a seed window, and a rectangle with a speck on its
\* first seed, have been analysed
NonEmptyBufferResolvesWitness ==
    /\ bufSettled = "resolved"
    /\ \/ buffer.height = 12 /\ bufResult.elements = <<>>
       \/ buffer \in SpeckBuffers /\ bufResult.elements # <<>>

\* C12: when the decoded image has width 0 or height 0 the promise of
\* analyzeImage rejects and no AnalysisResult is resolved
EmptyBufferRejects ==
    (bufSettled # "pending" /\ (buffer.width = 0 \/ buffer.height = 0)) =>
        bufSettled = "rejected" /\ bufResult = None

\* the analysis of an image of width 0 and height 40 has been rejected
EmptyBufferRejectsWitness ==
    /\ buffer.width = 0 /\ buffer.height = 40
    /\ bufSettled = "rejected"

\* C15: the dimensions of a resolved result are the buffer's width and
\* height
DimensionsOfBuffer ==
    bufSettled = "resolved" =>
        /\ bufResult.dimensions.width = buffer.width
        /\ bufResult.dimensions.height = buffer.height

\* a buffer that is not square has been analysed
DimensionsOfBufferWitness ==
    /\ bufSettled = "resolved"
    /\ buffer.width = 130 /\ buffer.height = 41
    /\ bufResult.dimensions = [width |-> 130, height |-> 41]

(***************************************************************************)
(* Properties of the analysis results handed to the code generators        *)
(***************************************************************************)
\* the layout of a stored analysis result
StoredLayout ==
    IF analysisResult.by = "canvas"
    THEN analysisResult.analysis.result.layout
    ELSE analysisResult.analysis.layout

\* C13: in every analysis result handed to the code generators, from the
\* heuristic analyzer or from the Vision producer, layout.direction is
\* present only when layout.type is "flex"
DirectionOnlyForFlex ==
    analysisResult # None =>
        ("direction" \in DOMAIN StoredLayout => StoredLayout.type = "flex")

(***************************************************************************)
(* Properties of extractColors                                             *)
(***************************************************************************)
\* the number of sampled pixels of the buffer (every 100th, alpha not below
\* 128) whose colour is c
SampleCount(c) ==
    Cardinality({k \in 0..((buffer.width * buffer.height - 1) \div 100) :
        LET p == CanvasPixel(LoadCanvas(EmptyCanvas, buffer),
                             (100 * k) % buffer.width, (100 * k) \div buffer.width)
        IN  p.a >= 128 /\ toHex(p.r, p.g, p.b) = c})

\* the colours sampled from the buffer
SampledColours ==
    {toHex(p.r, p.g, p.b) : p \in {buffer.bg} \cup {buffer.rects[k].px : k \in DOMAIN buffer.rects}}

\* C14: the palette of extractColors holds at most 5 colours, none twice, in
\* non-increasing order of their sample counts, and no sampled colour left
\* out was sampled more often than a colour of the palette
PaletteMostFrequent ==
    bufSettled = "resolved" =>
        LET palette == bufResult.colors.palette
        IN  /\ Len(palette) <= 5
            /\ \A i, j \in DOMAIN palette : i < j =>
                   /\ palette[i] # palette[j]
                   /\ SampleCount(palette[i]) >= SampleCount(palette[j])
            /\ \A i \in DOMAIN palette : SampleCount(palette[i]) >= 1
            /\ \A c \in SampledColours :
                   (SampleCount(c) >= 1 /\ \A i \in DOMAIN palette : palette[i] # c) =>
                       /\ Len(palette) = 5
                       /\ \A i \in DOMAIN palette : SampleCount(c) <= SampleCount(palette[i])

\* a buffer of seven sampled colours has been analysed: the palette has 5,
\* the most frequent first and the first colour sampled not first
PaletteMostFrequentWitness ==
    /\ bufSettled = "resolved"
    /\ buffer \in StripedBuffers
    /\ Cardinality({c \in SampledColours : SampleCount(c) >= 1}) = 7
    /\ Len(bufResult.colors.palette) = 5
    /\ bufResult.colors.palette[1] = toHex(0, 0, 255)

(***************************************************************************)
(* Properties of the helper methods                                        *)
(***************************************************************************)
\* C16: the contrast ratio is symmetric: getContrast(a, b) = getContrast(b, a)
ContrastSymmetric ==
    helperCall.fn = "getContrast" =>
        helperResult = getContrast(helperCall.color2, helperCall.color1)

\* the contrast of a dark first colour with a brighter second one has been
\* computed, and it is above 1
ContrastSymmetricWitness ==
    /\ helperCall.fn = "getContrast"
    /\ getLuminance(helperCall.color1) < getLuminance(helperCall.color2)
    /\ helperResult.num > helperResult.den

\* row k of the decision table matches a w x h rectangle
RowMatches(k, w, h) ==
    CASE k = 1 -> 2 * w >= 3 * h /\ w <= 6 * h /\ h >= 20 /\ h <= 80 /\ w >= 60 /\ w <= 300
      [] k = 2 -> w > 4 * h /\ h <= 40
      [] k = 3 -> w >= 2 * h /\ w <= 8 * h /\ h >= 25 /\ h <= 60 /\ w >= 100
      [] k = 4 -> w * h > 5000 /\ 2 * w >= h /\ w <= 3 * h
      [] k = 5 -> w * h > 2000 /\ 10 * w >= 7 * h /\ 2 * w <= 3 * h
      [] k = 6 -> w * h > 1000

RowOutcomes ==
    <<<<"button", 8>>, <<"text", 7>>, <<"input", 6>>, <<"card", 7>>, <<"image", 6>>,
      <<"container", 4>>>>

\* the rows of the decision table that match the rectangle of the call
MatchingRows ==
    {k \in DOMAIN RowOutcomes :
        RowMatches(k, helperCall.rect.width, helperCall.rect.height)}

\* C17: for every rectangle of positive width and height classifyElement
\* returns the outcome of the first row of the decision table that matches
\* (button, text, input, card, image, container), and no element when none
\* matches; a rectangle matching the button and the text rows is a button
FirstRowWins ==
    (/\ helperCall.fn = "classifyElement"
     /\ helperCall.rect.width >= 1 /\ helperCall.rect.height >= 1) =>
        IF MatchingRows = {}
        THEN helperResult = NoElement
        ELSE /\ helperResult.type = RowOutcomes[SetMin(MatchingRows)][1]
             /\ helperResult.confidence = RowOutcomes[SetMin(MatchingRows)][2]
             /\ helperResult.bounds = helperCall.rect

\* a rectangle matching both the button and the text rows was classified
FirstRowWinsWitness ==
    /\ helperCall.fn = "classifyElement"
    /\ {1, 2} \subseteq MatchingRows
    /\ helperResult.type = "button"

(***************************************************************************)
(* Properties of analyzeLayout: the order of its tests                     *)
(***************************************************************************)
\* the list has rows, columns and gaps as the grid test asks for them
FormsRowsAndColumns ==
    /\ Len(groupElementsIntoRows(layoutElements)) >= 2
    /\ Len(groupElementsIntoColumns(layoutElements)) >= 2
    /\ hasConsistentSpacing(layoutElements)

\* C18 as stated: every list of at least 2 elements with >= 2 rows, >= 2
\* columns and gap deviations < 20 on both axes is a grid with
\* gap = averageGap, whatever its length
RowsAndColumnsAreGrid ==
    (layoutResult # None /\ Len(layoutElements) >= 2 /\ FormsRowsAndColumns) =>
        /\ layoutResult.type = "grid"
        /\ layoutResult.gap = calculateLayoutMetrics(layoutCanvas, layoutElements).averageGap

\* C18: every list of at least 4 elements with >= 2 rows, >= 2 columns and
\* gap deviations < 20 on both axes is a grid with gap = averageGap, and
\* no list of fewer than 4 elements is a grid
FourInRowsAndColumnsAreGrid ==
    layoutResult # None =>
        /\ (Len(layoutElements) >= 4 /\ FormsRowsAndColumns) =>
               /\ layoutResult.type = "grid"
               /\ layoutResult.gap =
                      calculateLayoutMetrics(layoutCanvas, layoutElements).averageGap
        /\ Len(layoutElements) < 4 => layoutResult.type # "grid"

\* four elements in two rows and two columns, one of them from the stack
\* 16px apart, came out as a grid with gap 18
FourInRowsAndColumnsAreGridWitness ==
    /\ layoutResult # None
    /\ FormsRowsAndColumns
    /\ Len(layoutElements) = 4
    /\ layoutResult.type = "grid"
    /\ layoutResult.gap = 18

\* C19: for lists of at least 2 elements analyzeLayout tests in a fixed
\* order: grid; else flex/row with gap = horizontalGap when the y-based
\* score is > 0.6, also when the x-based score is > 0.6 too; else
\* flex/column with gap = verticalGap when the x-based score is > 0.6; else
\* absolute with padding
TestsInFixedOrder ==
    (layoutResult # None /\ Len(layoutElements) >= 2) =>
        LET metrics == calculateLayoutMetrics(layoutCanvas, layoutElements)
        IN  IF isGridLayout(layoutElements)
               THEN layoutResult.type = "grid"
            ELSE IF HorizontalAlignmentHigh(layoutElements)
               THEN /\ layoutResult.type = "flex"
                    /\ layoutResult.direction = "row"
                    /\ layoutResult.gap = metrics.horizontalGap
            ELSE IF VerticalAlignmentHigh(layoutElements)
               THEN /\ layoutResult.type = "flex"
                    /\ layoutResult.direction = "column"
                    /\ layoutResult.gap = metrics.verticalGap
            ELSE layoutResult = [type |-> "absolute", padding |-> metrics.containerPadding]

\* a list whose two scores are both > 0.6 came out as a row
TestsInFixedOrderWitness ==
    /\ layoutResult # None
    /\ Len(layoutElements) >= 2
    /\ HorizontalAlignmentHigh(layoutElements)
    /\ VerticalAlignmentHigh(layoutElements)
    /\ layoutResult.type = "flex"
    /\ layoutResult.direction = "row"
\* twice the sum of the centres, along x and along y, of the elements whose
\* alignment was asked
CentreSumX == SeqSum([k \in DOMAIN helperCall.elements |->
                  2 * helperCall.elements[k].bounds.x
                  + helperCall.elements[k].bounds.width])

CentreSumY == SeqSum([k \in DOMAIN helperCall.elements |->
                  2 * helperCall.elements[k].bounds.y
                  + helperCall.elements[k].bounds.height])

\* the same scale for the canvas centre along x, and along y
CanvasCentreX == Len(helperCall.elements) * helperCall.canvas.width

CanvasCentreY == Len(helperCall.elements) * helperCall.canvas.height

\* the average centre is within 20% of the half-extent from the canvas
\* centre on both axes
CentreNearCanvasCentre ==
    /\ 5 * Abs(CentreSumX - CanvasCentreX) < CanvasCentreX
    /\ 5 * Abs(CentreSumY - CanvasCentreY) < CanvasCentreY

\* C20: the overall alignment is "center" when the average element centre is
\* within 20% of the half-extent from the canvas centre; otherwise "start"
\* when the average centre is left of the canvas centre and "end" when it is
\* right of it
AlignmentFollowsCentre ==
    helperCall.fn = "determineAlignment" =>
        IF CentreNearCanvasCentre
           THEN helperResult.alignment = "center"
        ELSE IF CentreSumX < CanvasCentreX
           THEN helperResult.alignment = "start"
        ELSE IF CentreSumX > CanvasCentreX
           THEN helperResult.alignment = "end"
        ELSE TRUE

(***************************************************************************)
(* Properties of the colour roles                                          *)
(***************************************************************************)
\* the colours of the four corner pixels of the buffer, and how many of the
\* corners have the colour c
BufferCorners == CornerColors(LoadCanvas(EmptyCanvas, buffer))

CornerCount(c) == Cardinality({k \in 1..4 : BufferCorners[k] = c})

\* the colours found at more corners than any other colour (one or none)
MajorityCorners ==
    {c \in {BufferCorners[k] : k \in 1..4} :
        \A d \in {BufferCorners[k] : k \in 1..4} \ {c} : CornerCount(c) > CornerCount(d)}

\* C21: colors.background is the colour found at more of the 4 corners than
\* any other colour, and equals colors.dominant when no corner colour has
\* such a majority
BackgroundIsCornerMajority ==
    bufSettled = "resolved" =>
        IF MajorityCorners # {}
        THEN bufResult.colors.background \in MajorityCorners
        ELSE bufResult.colors.background = bufResult.colors.dominant

\* the index of the first sample of colour c, and the sampled colours that
\* come before c in descending frequency (first sampled first among equals)
FirstSample(c) ==
    SetMin({k \in 0..((buffer.width * buffer.height - 1) \div 100) :
        LET p == CanvasPixel(LoadCanvas(EmptyCanvas, buffer),
                             (100 * k) % buffer.width, (100 * k) \div buffer.width)
        IN  p.a >= 128 /\ toHex(p.r, p.g, p.b) = c})

CountedColours == {c \in SampledColours : SampleCount(c) >= 1}

ColoursBefore(c) ==
    {d \in CountedColours \ {c} :
        \/ SampleCount(d) > SampleCount(c)
        \/ (SampleCount(d) = SampleCount(c) /\ FirstSample(d) < FirstSample(c))}

\* the contrast ratio of c against the background reported exceeds 3.0
ContrastsWithBackground(c) ==
    getContrast(c, bufResult.colors.background).num
        > 3 * getContrast(c, bufResult.colors.background).den

\* the entries of the palette returned that contrast with the background
PaletteAccents ==
    {k \in DOMAIN bufResult.colors.palette :
        ContrastsWithBackground(bufResult.colors.palette[k])}

\* C22 as stated: colors.accent is the first entry of colors.palette whose
\* contrast ratio against colors.background exceeds 3.0, and the default
\* blue when no palette entry qualifies
AccentFromPalette ==
    bufSettled = "resolved" =>
        bufResult.colors.accent =
            IF PaletteAccents = {} THEN HexDefaultBlue
            ELSE bufResult.colors.palette[SetMin(PaletteAccents)]

\* the colours among the ten most frequent that contrast with the background
TopTenAccents ==
    {c \in CountedColours :
        Cardinality(ColoursBefore(c)) < 10 /\ ContrastsWithBackground(c)}

\* C22: colors.accent is the first of the at most 10 most frequent sampled
\* colours, in descending frequency, whose contrast ratio against
\* colors.background exceeds 3.0, and the default blue when none of them
\* qualifies
AccentFromTopTen ==
    bufSettled = "resolved" =>
        IF TopTenAccents = {}
        THEN bufResult.colors.accent = HexDefaultBlue
        ELSE /\ bufResult.colors.accent \in TopTenAccents
             /\ \A d \in TopTenAccents \ {bufResult.colors.accent} :
                    bufResult.colors.accent \in ColoursBefore(d)

\* a buffer of seven sampled colours has been analysed whose accent is its
\* least frequent colour, which the palette does not hold
AccentFromTopTenWitness ==
    /\ bufSettled = "resolved"
    /\ buffer \in AccentBuffers
    /\ Cardinality(CountedColours) = 7
    /\ bufResult.colors.accent = toHex(0, 0, 255)
    /\ \A k \in DOMAIN bufResult.colors.palette :
           bufResult.colors.palette[k] # bufResult.colors.accent

(***************************************************************************)
(* Properties of findRectangles                                            *)
(***************************************************************************)
\* this step is an iteration of the inner loop that expanded a candidate
ExpandsCandidate ==
    /\ helperCall.fn = "findRectangles"
    /\ scanPos' = scanPos + 1
    /\ scanLast'.bounds # None

\* this step pushed a rectangle
PushesRectangle == Len(scanRectangles') = Len(scanRectangles) + 1

\* C23: an expanded candidate rectangle is kept (pushed onto the list
\* returned) exactly when its width is at least 30 and its height at least 20
KeptFromThirtyByTwenty ==
    [][ExpandsCandidate =>
           (PushesRectangle <=>
               (scanLast'.bounds.width >= 30 /\ scanLast'.bounds.height >= 20))]_vars

\* the number of seed columns: the x = 0, 20, 40, ... below width - 20
GridColumns == Cardinality({x \in 0..(helperCall.edges.width - 21) : x % 20 = 0})

\* the visited marker of the pixel (x, y) has been set for a rectangle pushed
MarkerSet(x, y) ==
    \E k \in DOMAIN scanRectangles :
        /\ x \in {scanRectangles[k].x + 5 * i : i \in 0..((scanRectangles[k].width - 1) \div 5)}
        /\ y \in {scanRectangles[k].y + 5 * j : j \in 0..((scanRectangles[k].height - 1) \div 5)}

\* C25: findRectangles visits the seeds of the stride-20 grid row by row;
\* each seed pushes at most one rectangle, its own, at the end of the list,
\* so the list returned is in seed order; a seed whose visited marker is set
\* when the scan reaches it is skipped and pushes none
ScanInSeedOrder ==
    [][/\ (helperCall.fn = "findRectangles" /\ scanPos' = scanPos + 1) =>
              /\ scanLast'.x = 20 * (scanPos % GridColumns)
              /\ scanLast'.y = 20 * (scanPos \div GridColumns)
              /\ \/ scanRectangles' = scanRectangles
                 \/ scanRectangles' = Append(scanRectangles, scanLast'.bounds)
              /\ MarkerSet(scanLast'.x, scanLast'.y) =>
                     (scanLast'.visited /\ scanRectangles' = scanRectangles)
       /\ (helperCall.fn = "findRectangles" /\ helperResult' # helperResult) =>
              helperResult'.rectangles = scanRectangles]_vars

\* the scan has just skipped a visited seed after pushing two rectangles
ScanInSeedOrderWitness ==
    /\ helperCall.fn = "findRectangles"
    /\ scanLast # None
    /\ scanLast.visited
    /\ scanLast.y > 0
    /\ Len(scanRectangles) = 2
    /\ scanRectangles[1].y < scanRectangles[2].y

\* the edge map of the contents of the canvas findRectangles was called on
OwnEdges ==
    detectEdges(getImageData(helperCall.canvas, 0, 0,
                             helperCall.canvas.width, helperCall.canvas.height))

\* C26: the rectangles findRectangles returns are the same for every edge
\* map of the width and height of the canvas, whatever the map holds
RectanglesIgnoreEdges ==
    (helperCall.fn = "findRectangles" /\ helperResult # None) =>
        \A edges \in EdgeMaps(helperCall.canvas) :
            findRectangles(helperCall.canvas, edges) = helperResult.rectangles

\* findRectangles has returned a rectangle for an edge map that differs from
\* the edge map of the canvas at the rectangle's corner
RectanglesIgnoreEdgesWitness ==
    /\ helperCall.fn = "findRectangles"
    /\ helperResult # None
    /\ helperCall.canvas = LoadCanvas(EmptyCanvas, ButtonImage)
    /\ EdgeData(helperCall.edges, 20 * 120 + 20) # EdgeData(OwnEdges, 20 * 120 + 20)
    /\ Len(helperResult.rectangles) >= 1

\* the pixel of the seed last visited is not within colour tolerance 50 of
\* the mean colour of its window
SeedPixelFar ==
    colorDistanceSq(hexToRgb(scanLast.avgColor),
                    hexToRgb(getPixelColor(helperCall.canvas, scanLast.x, scanLast.y)))
        >= 2500

\* C30: the rectangle expanded from a seed contains the seed, so every
\* rectangle pushed does; a seed whose own pixel is not within colour
\* tolerance 50 of the mean colour of its window gives a 0x0 rectangle, and
\* the list of rectangles does not hold it
SeedInsideRectangle ==
    (helperCall.fn = "findRectangles" /\ scanLast # None /\ scanLast.bounds # None) =>
        /\ scanLast.bounds.x <= scanLast.x
        /\ scanLast.x <= scanLast.bounds.x + scanLast.bounds.width
        /\ scanLast.bounds.y <= scanLast.y
        /\ scanLast.y <= scanLast.bounds.y + scanLast.bounds.height
        /\ SeedPixelFar =>
               /\ scanLast.bounds.width = 0 /\ scanLast.bounds.height = 0
               /\ \A k \in DOMAIN scanRectangles : scanRectangles[k] # scanLast.bounds

\* a seed on a speck inside a rectangle has given a 0x0 rectangle
SeedInsideRectangleWitness ==
    /\ helperCall.fn = "findRectangles"
    /\ scanLast # None
    /\ scanLast.isUIElement
    /\ SeedPixelFar
    /\ scanLast.bounds = [x |-> scanLast.x, y |-> scanLast.y, width |-> 0, height |-> 0]

(***************************************************************************)
(* Properties of the element colour                                        *)
(***************************************************************************)
\* the pixel p (row-major) of the sub-buffer with bounds b
ElementPixel(b, p) ==
    CanvasPixel(LoadCanvas(EmptyCanvas, buffer),
                b.x + (p % b.width), b.y + (p \div b.width))

\* the most frequent colour among the pixels 0, stride, 2 * stride, ... of
\* the sub-buffer whose alpha is at least minAlpha, the first one sampled
\* among equals, and white without such a pixel
MostFrequentAt(b, stride, minAlpha) ==
    LET counted == {k \in 0..((b.width * b.height - 1) \div stride) :
                        ElementPixel(b, stride * k).a >= minAlpha}
        hex == [k \in counted |-> PixelHex(ElementPixel(b, stride * k))]
        colours == {hex[k] : k \in counted}
        cnt == [c \in colours |-> Cardinality({k \in counted : hex[k] = c})]
        fst == [c \in colours |-> SetMin({k \in counted : hex[k] = c})]
    IN  IF counted = {} THEN HexWhite
        ELSE CHOOSE c \in colours : \A d \in colours \ {c} :
                 cnt[c] > cnt[d] \/ (cnt[c] = cnt[d] /\ fst[c] < fst[d])

\* C24 as stated: colors.background of every element is what the dominant
\* colour extraction of ColorAnalyzer gives for the rectangle's sub-buffer:
\* every 100th pixel, alpha 128 and above counted
ElementColourAsColorAnalyzer ==
    bufSettled = "resolved" =>
        \A k \in DOMAIN bufResult.elements :
            bufResult.elements[k].colors.background
                = MostFrequentAt(bufResult.elements[k].bounds, 100, 128)

\* C24: colors.background of every element is the most frequent colour
\* among every 4th pixel of the rectangle's sub-buffer whose alpha is above
\* 128, and white without such a pixel
ElementColourOfEveryFourth ==
    bufSettled = "resolved" =>
        \A k \in DOMAIN bufResult.elements :
            bufResult.elements[k].colors.background
                = MostFrequentAt(bufResult.elements[k].bounds, 4, 129)

\* an element has come out whose rectangle holds more pixels of alpha 128
\* than opaque ones, and its colour is the colour of the opaque ones
ElementColourOfEveryFourthWitness ==
    /\ bufSettled = "resolved"
    /\ buffer \in TwoToneBuffers
    /\ buffer.rects[2].px.a = 128
    /\ Len(bufResult.elements) = 1
    /\ bufResult.elements[1].bounds.height > 20
    /\ bufResult.elements[1].colors.background = toHex(0, 0, 230)

(***************************************************************************)
(* Properties of the flex alignment                                        *)
(***************************************************************************)
\* the positions of the elements along the direction of the flex layout
\* returned, and the i-th smallest of them
FlexPositions ==
    [k \in DOMAIN layoutElements |->
        IF layoutResult.direction = "row"
        THEN layoutElements[k].bounds.x ELSE layoutElements[k].bounds.y]

NthPosition(i) ==
    CHOOSE v \in {FlexPositions[k] : k \in DOMAIN layoutElements} :
        /\ Cardinality({k \in DOMAIN layoutElements : FlexPositions[k] < v}) < i
        /\ i <= Cardinality({k \in DOMAIN layoutElements : FlexPositions[k] <= v})

\* the gaps between successive positions, their sum and the sum of their squares
PositionGaps == [i \in 1..(Len(layoutElements) - 1) |-> NthPosition(i + 1) - NthPosition(i)]

GapSum == SeqSum(PositionGaps)

GapSquareSum == SeqSum([i \in DOMAIN PositionGaps |-> PositionGaps[i] * PositionGaps[i]])

\* the standard deviation of the gaps is at least 10: with k gaps,
\* sum of squares / k - (sum / k)^2 >= 100
GapsSpreadTenOrMore ==
    Len(PositionGaps) * GapSquareSum - GapSum * GapSum
        >= 100 * Len(PositionGaps) * Len(PositionGaps)

\* C27: a flex layout returned for exactly two elements has the alignment
\* "space-between" or "space-around"; a flex layout has the alignment
\* "start", "center" or "end" only when the standard deviation of the gaps
\* between successive positions is at least 10
TwoElementsFlexSpaced ==
    (layoutResult # None /\ layoutResult.type = "flex") =>
        /\ Len(layoutElements) = 2 =>
               layoutResult.alignment \in {"space-between", "space-around"}
        /\ layoutResult.alignment \in {"start", "center", "end"} => GapsSpreadTenOrMore

\* a flex layout has been returned for two elements
TwoElementsFlexSpacedWitness ==
    /\ layoutResult # None
    /\ layoutResult.type = "flex"
    /\ Len(layoutElements) = 2
    /\ layoutResult.alignment = "space-around"

(***************************************************************************)
(* Properties of the page component under overlapping uploads              *)
(***************************************************************************)
\* C28: whenever uploadedImage is null, analysisResult is null and
\* generatedCode is empty, also when Upload New was clicked while a
\* handleImageUpload invocation was awaiting its analysis
ResetStaysClear ==
    uploadedImage = None =>
        (analysisResult = None /\ generatedCode = [by |-> "none"])

\* C29: isProcessing is true exactly while at least one handleImageUpload
\* invocation is in flight
ProcessingWhileInFlight == isProcessing <=> (calls # {})

====
